---------------------------- MODULE Spec2Model ----------------------------
(***************************************************************************)
(* Randall sport-camera controller: event queue, DVR status interpreter    *)
(* (drv_dvr_status.cpp), controller FSM (controller_fsm.cpp) and the UI    *)
(* policy it drives (ui_policy.cpp).                                       *)
(*                                                                         *)
(* Enumerators are modelled by their names.  An event is [id, arg0, tag]:  *)
(* t_ms, src, reason and arg1 are written by the producers and never read  *)
(* by a consumer; tag is a history field numbering the producers' accepted *)
(* pushes (0 when numbering is switched off).  An action is [id, arg0].    *)
(* Times are milliseconds below 2^31, where (int32_t)(now - deadline)      *)
(* equals now - deadline.                                                  *)
(***************************************************************************)
EXTENDS Integers, Sequences, FiniteSets, TLC

VARIABLES
    now,                 \* millis()
    evq,                 \* event_queue.cpp: the events between s_tail and s_head, s_dropped
    s_state,             \* controller_fsm.cpp statics
    s_bat,
    s_lockout,
    s_err,
    s_boot_deadline_ms,
    s_shutdown_pending,
    s_stop_pending,
    s_last_state,        \* ui_policy.cpp statics
    s_last_led,
    fsm_pc,              \* position in controller_fsm_poll: "idle" | "drain"
    act_out,             \* actions handed to actionq_push by the latest FSM step
    last_step,           \* history: what the latest FSM step did
    pre,                 \* history: FSM statics before the latest FSM step
    s_last_pat,          \* drv_dvr_status.cpp statics
    s_fast_persist_armed,
    s_fast_deadline_ms,
    s_sd_error_emitted,
    s_recording,
    st_pc,               \* position in drv_dvr_status_poll: "idle" | "pop" | "repush" | "deadline"
    st_now,              \* now_ms argument of the running / latest drv_dvr_status_poll
    stash,               \* poll_led_pattern_events: stash[0..n-1]
    st_i,                \* poll_led_pattern_events: index i of the re-push loop
    ev_out,              \* events handed to eventq_push by the latest interpreter step
    st_step,             \* history: what the latest interpreter step did
    fast_since,          \* history: time the current FAST_BLINK episode was observed, -1 if none
    fast_errs,           \* history: EV_DVR_ERROR emissions since the latest entry into FAST_BLINK
    next_tag,            \* history: number of the next accepted producer push
    tagging,             \* history: whether pushes are numbered
    fsm_max_tag,        \* history: largest tag the FSM has popped
    s_reported,          \* drv_dvr_led.cpp: pattern last reported by the bridge
    s_int_level,         \* power_mgr.cpp: INT# level last seen by the ISR
    s_head,              \* event_queue.cpp: write index
    s_tail,              \* event_queue.cpp: read index
    s_buf,               \* event_queue.cpp: the slots
    s_dropped,           \* event_queue.cpp: rejected pushes
    cnt_pc,              \* position in eventq_count: "idle" | "read"
    cnt_h,               \* eventq_count: local h
    cnt_t,               \* eventq_count: local t
    cnt_ret,             \* eventq_count: value returned, if it was the latest operation
    ring_live,           \* history: accepted events not yet popped, oldest first
    ring_npush,          \* history: calls of eventq_push and eventq_push_isr
    ring_nisr,           \* history: calls of eventq_push_isr
    ring_op,             \* history: the latest queue operation, its result and its event
    ring_prev_tag,       \* history: number of the event popped before the latest one
    ring_run,            \* history: pushes since the queue was empty, no pop since (-1: none)
    ring_drop0,          \* history: s_dropped when the queue was last empty
    actq,                \* action queue: the actions between its tail and its head
    s_led_pat,           \* executor.cpp statics
    s_led_level,
    s_led_next_ms,
    s_beep_active,
    s_beep_pat,
    s_beep_remaining,
    s_beep_phase,
    s_beep_next_ms,
    s_dvr_active,
    s_dvr_pressed,
    s_dvr_next_ms,
    s_dvr_press_ms,
    PIN_STATUS_LED,      \* output pins: TRUE when driven to the ON / PRESS level
    PIN_BUZZER_OUT,
    PIN_DVR_BTN_CMD,
    ex_npush,            \* history: calls of actionq_push by the controller
    ex_asserts,          \* history: per press action, times the button line was asserted for it
    ex_releases,         \* history: per press action, times the button line was released for it
    ex_cur,              \* history: the press action the button line was last asserted for
    ex_requeued,         \* history: numbers of the press actions executor_poll has put back
    ex_held,             \* history: ms the button line has been asserted, capped
    ex_since_release,    \* history: ms since the button line was released, capped (-1: never)
    ex_op,               \* history: what the latest executor step did to the button line
    ex_beep,             \* history: the latest beep request and the buzzer switching since
    PIN_KILL_N_O,        \* output pin KILL#: TRUE when driven to KILL_ASSERT_LEVEL
    g_kill_asserted,     \* power_mgr.cpp static
    pw_op,               \* history: the latest call of the power manager, "none" if none
    PIN_DVR_STAT,        \* input pin: level of the DVR status LED line, 0 = LOW = lit
    s_edgeq,             \* dvr_led.cpp: the slots of the edge ring
    s_edgeq_w,           \* dvr_led.cpp: write index
    s_edgeq_r,           \* dvr_led.cpp: read index
    s_pat,               \* dvr_led.cpp statics
    s_level,
    s_last_edge_ms,
    s_last_on_ms,
    s_last_off_ms,
    s_last_period_ms,
    s_level_start_us,
    led_pc,              \* position in loop(): "idle" | "captured" | "drain"
    led_now_ms,          \* now_ms argument of the running / latest dvr_led_poll
    level_now,           \* dvr_led_poll: local level_now
    sig,                 \* the signal on the LED line: what it does next
    led_h,               \* history of the edge ring and of the published pattern
    g_ctrl,              \* main.cpp (dvr_ctrl smoke test): the dvr_ctrl_t object
    g_last_asserted,     \* main.cpp: level btn_set_cb last wrote to the button output
    ctrl_ms,             \* millis() of the dvr_ctrl sketch, a uint32_t (see U32)
    ctrl_h               \* history of the calls made to dvr_ctrl

fsm_vars == <<s_state, s_bat, s_lockout, s_err, s_boot_deadline_ms,
              s_shutdown_pending, s_stop_pending, s_last_state, s_last_led>>
fsm_hist == <<fsm_pc, act_out, last_step, pre, fsm_max_tag>>
st_vars  == <<s_last_pat, s_fast_persist_armed, s_fast_deadline_ms,
              s_sd_error_emitted, s_recording>>
st_hist  == <<st_pc, st_now, stash, st_i, ev_out, st_step, fast_since, fast_errs>>
prod_vars == <<s_reported, s_int_level>>
ring_vars == <<s_head, s_tail, s_buf, s_dropped, cnt_pc, cnt_h, cnt_t, cnt_ret>>
ring_hist == <<ring_live, ring_npush, ring_nisr, ring_op, ring_prev_tag, ring_run, ring_drop0>>
ex_vars  == <<actq, s_led_pat, s_led_level, s_led_next_ms, s_beep_active, s_beep_pat,
              s_beep_remaining, s_beep_phase, s_beep_next_ms, s_dvr_active, s_dvr_pressed,
              s_dvr_next_ms, s_dvr_press_ms, PIN_STATUS_LED, PIN_BUZZER_OUT, PIN_DVR_BTN_CMD>>
ex_hist  == <<ex_npush, ex_asserts, ex_releases, ex_cur, ex_requeued, ex_held,
              ex_since_release, ex_op, ex_beep>>
pw_vars  == <<PIN_KILL_N_O, g_kill_asserted, pw_op>>
led_vars == <<PIN_DVR_STAT, s_edgeq, s_edgeq_w, s_edgeq_r, s_pat, s_level, s_last_edge_ms,
              s_last_on_ms, s_last_off_ms, s_last_period_ms, s_level_start_us,
              led_pc, led_now_ms, level_now, sig, led_h>>
ctrl_vars == <<g_ctrl, g_last_asserted, ctrl_ms, ctrl_h>>
aux_vars == <<ring_vars, ring_hist, ex_vars, ex_hist, pw_vars, led_vars, ctrl_vars>>
vars     == <<now, evq, fsm_vars, fsm_hist, st_vars, st_hist, next_tag, tagging, prod_vars,
              aux_vars>>

---------------------------------------------------------------------------
(* Program constants *)

CFG_EVENT_QUEUE_SIZE == 16
T_BOOT_TIMEOUT_MS    == 8000
STASH_MAX            == 16
CFG_ACTION_QUEUE_SIZE == 8
EXECUTOR_STASH_MAX   == 16
T_BEEP_MS            == 80
T_BEEP_GAP_MS        == 80
T_DOUBLE_BEEP_GAP_MS == 180
T_DVR_PRESS_SHORT_MS == 500
T_DVR_PRESS_LONG_MS  == 3000
T_DVR_PRESS_GAP_MS   == 500
DVR_LED_GLITCH_MS    == 5
EDGEQ_N              == 8
T_SOLID_MS           == 1500
T_SLOW_MIN_MS        == 1700
T_SLOW_MAX_MS        == 2600
T_SLOW_EDGE_MIN_MS   == 300
T_SLOW_EDGE_MAX_MS   == 1400
T_FAST_MIN_MS        == 120
T_FAST_MAX_MS        == 320
T_FAST_EDGE_MIN_MS   == 40
T_FAST_EDGE_MAX_MS   == 180
T_ABN_SLOW_MIN_MS    == 1200
T_ABN_BLINK_BURST_MS == 2000
LOW                  == 0
HIGH                 == 1

(* Bounds of the model *)

TickMs     == 4000      \* time advances in steps of TickMs
MaxTicks   == 3         \* ... up to MaxTicks steps
MaxPending == 2         \* producers stop pushing at this queue length
MaxTag     == 4         \* numbered pushes per behaviour (when numbering is on)
MaxPushes  == 17        \* calls of eventq_push and eventq_push_isr on the ring
MaxIsrPushes == 1       \* ... of which from the interrupt handler
ExTickMs   == 250       \* the executor's clock advances in steps of ExTickMs
MaxActs    == 2         \* calls of actionq_push by the controller
MaxLedMs   == 3500      \* the clock of the classifier stops here
MaxLags    == 1         \* iterations of loop() with the clock stepping before the poll
MaxLedEdges == 3        \* edges on the LED line per behaviour
MaxRingEdges == 9       \* ... when the edge ring alone is examined
MaxWaveEdges == 8       \* ... of a square wave
MaxAbnMs   == 7000      \* the clock stops here on the abnormal-boot signature
LoopLagMs  == 1         \* ms that may pass in loop() between millis() and dvr_led_poll
LedScheduleLen == 4     \* writes of the light engine compared
CtrlTickMs == 500       \* the clock of the dvr_ctrl sketch advances in steps of CtrlTickMs
MaxCtrlMs  == 4000      \* ... up to MaxCtrlMs after the first call
CtrlWrapLeadMs == 1000  \* ms left before millis() wraps, after a long wait
MaxAborts  == 2         \* calls of dvr_ctrl_abort per behaviour

---------------------------------------------------------------------------
(* enums.h *)

dvr_led_pattern_t == {"DVR_LED_UNKNOWN", "DVR_LED_OFF", "DVR_LED_SOLID",
                      "DVR_LED_SLOW_BLINK", "DVR_LED_FAST_BLINK", "DVR_LED_ABNORMAL_BOOT"}

battery_state_t == {"BAT_UNKNOWN", "BAT_FULL", "BAT_HALF", "BAT_LOW", "BAT_CRITICAL"}

controller_state_t == {"STATE_OFF", "STATE_BOOTING", "STATE_IDLE", "STATE_RECORDING",
                       "STATE_LOW_BAT", "STATE_ERROR", "STATE_LOCKOUT"}

Ev(id, arg0) == [id |-> id, arg0 |-> arg0, tag |-> 0]

Act(id, arg0) == [id |-> id, arg0 |-> arg0]

---------------------------------------------------------------------------
(* event_queue.cpp.  The ring buffer is represented by the sequence of     *)
(* events stored from s_tail up to s_head; next_index(s_head) = s_tail,    *)
(* the full test of push_core, is Len(items) = CFG_EVENT_QUEUE_SIZE - 1.   *)

eventq_full(q) == Len(q.items) = CFG_EVENT_QUEUE_SIZE - 1

push_core(q, e) ==
    IF eventq_full(q)
    THEN [q EXCEPT !.dropped = (@ + 1) % 65536]
    ELSE [q EXCEPT !.items = Append(@, e)]

eventq_push(q, e) == push_core(q, e)

eventq_push_isr(q, e) == push_core(q, e)

eventq_empty(q) == q.items = <<>>

eventq_pop(q) == [q EXCEPT !.items = Tail(@)]

eventq_front(q) == Head(q.items)

(* time_reached of controller_fsm.cpp and drv_dvr_status.cpp *)
time_reached(t, deadline) == t - deadline >= 0

---------------------------------------------------------------------------
(* ui_policy.cpp and controller_fsm.cpp as functions of a context record c *)
(* holding the statics of both files and out, the actions handed to        *)
(* actionq_push so far.                                                    *)

Ctx == [s_state |-> s_state, s_bat |-> s_bat, s_lockout |-> s_lockout, s_err |-> s_err,
        s_boot_deadline_ms |-> s_boot_deadline_ms,
        s_shutdown_pending |-> s_shutdown_pending, s_stop_pending |-> s_stop_pending,
        s_last_state |-> s_last_state, s_last_led |-> s_last_led, out |-> <<>>]

emit_action(c, id, arg0) == [c EXCEPT !.out = Append(@, Act(id, arg0))]

act_dvr_short(c) == emit_action(c, "ACT_DVR_PRESS_SHORT", "0")

act_dvr_long(c) == emit_action(c, "ACT_DVR_PRESS_LONG", "0")

led(c, p) ==
    IF p = c.s_last_led THEN c
    ELSE emit_action([c EXCEPT !.s_last_led = p], "ACT_LED_PATTERN", p)

beep(c, p) == emit_action(c, "ACT_BEEP", p)

boot_cue(c) == beep(c, "BEEP_DOUBLE")

ui_policy_init(c) == [c EXCEPT !.s_last_state = "STATE_OFF", !.s_last_led = "LED_OFF"]

ui_policy_on_state_enter(c, s, err, bat) ==
    LET state_changed == s # c.s_last_state
        c1 == [c EXCEPT !.s_last_state = s]
    IN  CASE s = "STATE_OFF"       -> led(c1, "LED_OFF")
          [] s = "STATE_BOOTING"   -> led(IF state_changed THEN boot_cue(c1) ELSE c1,
                                          "LED_FAST_BLINK")
          [] s = "STATE_IDLE"      -> led(c1, "LED_SOLID")
          [] s = "STATE_RECORDING" -> led(c1, "LED_SLOW_BLINK")
          [] s = "STATE_LOW_BAT"   ->
                LET c2 == led(c1, "LED_SLOW_BLINK")
                IN  IF ~state_changed THEN c2
                    ELSE IF bat = "BAT_CRITICAL" THEN beep(c2, "BEEP_ERROR_FAST")
                    ELSE beep(c2, "BEEP_LOW_BAT")
          [] s = "STATE_ERROR"     ->
                LET c2 == led(c1, "LED_ERROR_PATTERN")
                IN  IF state_changed THEN beep(c2, "BEEP_ERROR_FAST") ELSE c2
          [] s = "STATE_LOCKOUT"   ->
                LET c2 == led(c1, "LED_LOCKOUT_PATTERN")
                IN  IF state_changed THEN beep(c2, "BEEP_SINGLE") ELSE c2
          [] OTHER                 ->
                LET c2 == led(c1, "LED_ERROR_PATTERN")
                IN  IF state_changed THEN beep(c2, "BEEP_ERROR_FAST") ELSE c2

ui_policy_on_record_confirmed(c) == beep(c, "BEEP_DOUBLE")

ui_policy_on_stop_confirmed(c) == beep(c, "BEEP_SINGLE")

ui_policy_on_error(c, err) == beep(led(c, "LED_ERROR_PATTERN"), "BEEP_ERROR_FAST")

set_state(c, next) ==
    IF next = c.s_state THEN c
    ELSE ui_policy_on_state_enter([c EXCEPT !.s_state = next], next, c.s_err, c.s_bat)

set_error(c, err, next_state) ==
    set_state(ui_policy_on_error([c EXCEPT !.s_err = err], err), next_state)

clear_error_if(c, next) ==
    IF c.s_err # "ERR_NONE" /\ next # "STATE_ERROR" /\ next # "STATE_LOCKOUT"
    THEN [c EXCEPT !.s_err = "ERR_NONE"]
    ELSE c

handle_battery_event(c, ev) ==
    CASE ev.id = "EV_BAT_STATE_CHANGED" ->
            LET c1 == [c EXCEPT !.s_bat = ev.arg0]
            IN  IF ~c1.s_lockout /\ c1.s_bat = "BAT_CRITICAL"
                THEN set_state([c1 EXCEPT !.s_err = "ERR_BAT_CRITICAL"], "STATE_LOW_BAT")
                ELSE c1
      [] ev.id = "EV_BAT_LOCKOUT_ENTER" ->
            set_state([c EXCEPT !.s_lockout = TRUE, !.s_err = "ERR_BAT_LOCKOUT"],
                      "STATE_LOCKOUT")
      [] ev.id = "EV_BAT_LOCKOUT_EXIT" ->
            set_state([c EXCEPT !.s_lockout = FALSE, !.s_err = "ERR_NONE"], "STATE_OFF")
      [] OTHER -> c

(* The switch (s_state) of handle_button_event, one definition per case *)

button_in_off_powering_on(c, is_short) ==
    IF is_short THEN c ELSE act_dvr_long(set_state(c, "STATE_BOOTING"))

button_in_off(c, is_short) == c

button_in_booting(c, is_short) == c

(* Variant of case STATE_IDLE: a tap requests the device press twice *)
button_in_idle_twice(c, is_short) ==
    IF is_short THEN act_dvr_short(act_dvr_short(c))
    ELSE act_dvr_long([c EXCEPT !.s_shutdown_pending = TRUE])

button_in_idle(c, is_short) ==
    IF is_short THEN act_dvr_short(c)
    ELSE act_dvr_long([c EXCEPT !.s_shutdown_pending = TRUE])

(* Variant of case STATE_RECORDING: a long hold requests the power-off     *)
(* press at once                                                           *)
button_in_recording_long_direct(c, is_short) ==
    IF is_short THEN act_dvr_short(c)
    ELSE act_dvr_long([c EXCEPT !.s_shutdown_pending = TRUE, !.s_stop_pending = TRUE])

button_in_recording(c, is_short) ==
    IF is_short THEN act_dvr_short(c)
    ELSE act_dvr_short([c EXCEPT !.s_shutdown_pending = TRUE, !.s_stop_pending = TRUE])

button_in_low_bat(c, is_short) ==
    IF is_short THEN c
    ELSE LET c1 == [c EXCEPT !.s_shutdown_pending = TRUE]
         IN  IF c1.s_state = "STATE_RECORDING"
             THEN act_dvr_short([c1 EXCEPT !.s_stop_pending = TRUE])
             ELSE act_dvr_long(c1)

button_in_error(c, is_short) ==
    IF is_short THEN c
    ELSE act_dvr_long([c EXCEPT !.s_shutdown_pending = TRUE])

lockout_gate_open(c) == FALSE

lockout_gate(c) == c.s_lockout

shutdown_gate_open(c) == FALSE

shutdown_gate(c) == c.s_shutdown_pending

handle_button_event(c, ev) ==
    LET is_short == ev.id = "EV_BTN_SHORT_PRESS"
        is_long  == ev.id = "EV_BTN_LONG_PRESS"
    IN  IF ~is_short /\ ~is_long THEN c
        ELSE IF lockout_gate(c) THEN c
        ELSE IF shutdown_gate(c) THEN c
        ELSE CASE c.s_state = "STATE_OFF"       -> button_in_off(c, is_short)
               [] c.s_state = "STATE_BOOTING"   -> button_in_booting(c, is_short)
               [] c.s_state = "STATE_IDLE"      -> button_in_idle(c, is_short)
               [] c.s_state = "STATE_RECORDING" -> button_in_recording(c, is_short)
               [] c.s_state = "STATE_LOW_BAT"   -> button_in_low_bat(c, is_short)
               [] c.s_state = "STATE_ERROR"     -> button_in_error(c, is_short)
               [] OTHER                         -> c

(* The switch (ev->id) of handle_dvr_semantic_event, one definition per case *)

on_powered_on_idle(c) ==
    IF c.s_state = "STATE_BOOTING" /\ ~c.s_lockout
    THEN ui_policy_on_record_confirmed(set_state([c EXCEPT !.s_err = "ERR_NONE"], "STATE_IDLE"))
    ELSE c

on_powered_off(c) ==
    IF ~c.s_lockout
    THEN set_state(clear_error_if([c EXCEPT !.s_shutdown_pending = FALSE,
                                            !.s_stop_pending = FALSE], "STATE_OFF"),
                   "STATE_OFF")
    ELSE c

on_record_started(c) ==
    IF ~c.s_lockout /\ ~c.s_shutdown_pending
    THEN ui_policy_on_record_confirmed(set_state(c, "STATE_RECORDING"))
    ELSE c

on_record_stopped_no_continue(c) ==
    IF ~c.s_lockout
    THEN ui_policy_on_stop_confirmed(set_state(c, "STATE_IDLE"))
    ELSE c

on_record_stopped(c) ==
    IF ~c.s_lockout
    THEN LET c1 == ui_policy_on_stop_confirmed(set_state(c, "STATE_IDLE"))
         IN  IF c1.s_shutdown_pending /\ c1.s_stop_pending
             THEN act_dvr_long([c1 EXCEPT !.s_stop_pending = FALSE])
             ELSE c1
    ELSE c

on_dvr_error(c, ev) == set_error(c, ev.arg0, "STATE_ERROR")

handle_dvr_semantic_event(c, ev) ==
    CASE ev.id = "EV_DVR_POWERED_ON_IDLE" -> on_powered_on_idle(c)
      [] ev.id = "EV_DVR_POWERED_OFF"     -> on_powered_off(c)
      [] ev.id = "EV_DVR_RECORD_STARTED"  -> on_record_started(c)
      [] ev.id = "EV_DVR_RECORD_STOPPED"  -> on_record_stopped(c)
      [] ev.id = "EV_DVR_ERROR"           -> on_dvr_error(c, ev)
      [] OTHER                            -> c

BatteryIds == {"EV_BAT_STATE_CHANGED", "EV_BAT_LOCKOUT_ENTER", "EV_BAT_LOCKOUT_EXIT"}

SemanticIds == {"EV_DVR_POWERED_ON_IDLE", "EV_DVR_RECORD_STARTED", "EV_DVR_RECORD_STOPPED",
                "EV_DVR_POWERED_OFF", "EV_DVR_ERROR"}

ButtonIds == {"EV_BTN_SHORT_PRESS", "EV_BTN_LONG_PRESS"}

(* Body of the while (eventq_pop(&ev)) loop of controller_fsm_poll *)
fsm_dispatch(c, ev) ==
    IF ev.id \in BatteryIds THEN handle_battery_event(c, ev)
    ELSE IF ev.id \in SemanticIds THEN handle_dvr_semantic_event(c, ev)
    ELSE IF ev.id \in ButtonIds THEN handle_button_event(c, ev)
    ELSE c

(* The boot-timeout check at the top of controller_fsm_poll *)
boot_timeout_check_never(c, now_ms) == c

boot_timeout_check(c, now_ms) ==
    IF c.s_state = "STATE_BOOTING" /\ time_reached(now_ms, c.s_boot_deadline_ms)
    THEN IF ~c.s_lockout THEN set_error(c, "ERR_DVR_BOOT_TIMEOUT", "STATE_ERROR") ELSE c
    ELSE c

(* Variant of controller_fsm_init: the controller starts in STATE_OFF and  *)
(* requests no press                                                       *)
controller_fsm_init_off ==
    LET c0 == [s_state |-> "STATE_OFF", s_bat |-> "BAT_UNKNOWN", s_lockout |-> FALSE,
               s_err |-> "ERR_NONE", s_boot_deadline_ms |-> 0,
               s_shutdown_pending |-> FALSE, s_stop_pending |-> FALSE,
               s_last_state |-> "STATE_OFF", s_last_led |-> "LED_OFF", out |-> <<>>]
        c1 == ui_policy_init(c0)
    IN  ui_policy_on_state_enter(c1, c1.s_state, c1.s_err, c1.s_bat)

(* controller_fsm_init *)
controller_fsm_init ==
    LET c0 == [s_state |-> "STATE_BOOTING", s_bat |-> "BAT_UNKNOWN", s_lockout |-> FALSE,
               s_err |-> "ERR_NONE", s_boot_deadline_ms |-> 0 + T_BOOT_TIMEOUT_MS,
               s_shutdown_pending |-> FALSE, s_stop_pending |-> FALSE,
               s_last_state |-> "STATE_OFF", s_last_led |-> "LED_OFF", out |-> <<>>]
        c1 == ui_policy_init(c0)
        c2 == ui_policy_on_state_enter(c1, c1.s_state, c1.s_err, c1.s_bat)
    IN  act_dvr_long(c2)

(* Writing a context back to the statics *)
StoreCtx(c) ==
    /\ s_state' = c.s_state
    /\ s_bat' = c.s_bat
    /\ s_lockout' = c.s_lockout
    /\ s_err' = c.s_err
    /\ s_boot_deadline_ms' = c.s_boot_deadline_ms
    /\ s_shutdown_pending' = c.s_shutdown_pending
    /\ s_stop_pending' = c.s_stop_pending
    /\ s_last_state' = c.s_last_state
    /\ s_last_led' = c.s_last_led
    /\ act_out' = c.out

Snapshot == Ctx

---------------------------------------------------------------------------
(* drv_dvr_status.cpp as functions of a context record d holding its       *)
(* statics, the event queue q, the number tg of the next accepted push and *)
(* out, the events handed to eventq_push so far.                           *)

StCtx == [s_last_pat |-> s_last_pat, s_fast_persist_armed |-> s_fast_persist_armed,
          s_fast_deadline_ms |-> s_fast_deadline_ms,
          s_sd_error_emitted |-> s_sd_error_emitted, s_recording |-> s_recording,
          q |-> evq, tg |-> next_tag, out |-> <<>>]

(* A producer's push: the event is numbered when it is accepted *)
Stamp(e, tg) == [e EXCEPT !.tag = IF tagging THEN tg ELSE 0]

TagAfter(q, tg) == IF tagging /\ ~eventq_full(q) THEN tg + 1 ELSE tg

emit_event(d, id, arg0) ==
    [d EXCEPT !.q   = eventq_push(@, Stamp(Ev(id, arg0), d.tg)),
              !.tg  = TagAfter(d.q, @),
              !.out = Append(@, Ev(id, arg0))]

cancels_fast_persist(p) == p \in {"DVR_LED_OFF", "DVR_LED_SOLID", "DVR_LED_UNKNOWN"}

arm_fast_persist(d, now_ms) ==
    [d EXCEPT !.s_fast_persist_armed = TRUE,
              !.s_fast_deadline_ms   = now_ms + T_BOOT_TIMEOUT_MS,
              !.s_sd_error_emitted   = FALSE]

disarm_fast_persist(d) ==
    [d EXCEPT !.s_fast_persist_armed = FALSE,
              !.s_fast_deadline_ms   = 0,
              !.s_sd_error_emitted   = FALSE]

(* on_pattern_transition, part 1: the recording latch *)

recording_latch_any_exit(d, prev, pat) ==
    IF pat = "DVR_LED_SLOW_BLINK"
    THEN IF ~d.s_recording
         THEN emit_event([d EXCEPT !.s_recording = TRUE], "EV_DVR_RECORD_STARTED", "0")
         ELSE d
    ELSE IF d.s_recording
         THEN emit_event([d EXCEPT !.s_recording = FALSE], "EV_DVR_RECORD_STOPPED", "0")
         ELSE d

recording_latch(d, prev, pat) ==
    IF pat = "DVR_LED_SLOW_BLINK"
    THEN IF ~d.s_recording
         THEN emit_event([d EXCEPT !.s_recording = TRUE], "EV_DVR_RECORD_STARTED", "0")
         ELSE d
    ELSE IF d.s_recording /\ prev = "DVR_LED_SLOW_BLINK"
              /\ (pat = "DVR_LED_SOLID" \/ pat = "DVR_LED_OFF")
         THEN emit_event([d EXCEPT !.s_recording = FALSE], "EV_DVR_RECORD_STOPPED", "0")
         ELSE d

(* on_pattern_transition, part 2: power state hints *)
power_hints(d, pat) ==
    IF pat = "DVR_LED_OFF"
    THEN disarm_fast_persist(emit_event(d, "EV_DVR_POWERED_OFF", "0"))
    ELSE IF pat = "DVR_LED_SOLID"
    THEN disarm_fast_persist(emit_event(d, "EV_DVR_POWERED_ON_IDLE", "0"))
    ELSE d

(* on_pattern_transition, part 3: FAST_BLINK persistence *)
fast_persist(d, now_ms, pat) ==
    IF pat = "DVR_LED_FAST_BLINK"
    THEN IF ~d.s_fast_persist_armed THEN arm_fast_persist(d, now_ms) ELSE d
    ELSE IF cancels_fast_persist(pat) THEN disarm_fast_persist(d)
    ELSE disarm_fast_persist(d)

on_pattern_transition(d, now_ms, prev, pat) ==
    fast_persist(power_hints(recording_latch(d, prev, pat), pat), now_ms, pat)

(* Body of the if (ev.id == EV_DVR_LED_PATTERN_CHANGED) of poll_led_pattern_events *)
on_led_event(d, now_ms, ev) ==
    LET pat == ev.arg0
    IN  IF pat # d.s_last_pat
        THEN on_pattern_transition([d EXCEPT !.s_last_pat = pat], now_ms, d.s_last_pat, pat)
        ELSE d

(* The discriminator at the end of drv_dvr_status_poll *)

fault_due_untimed(d, now_ms) == d.s_fast_persist_armed /\ ~d.s_sd_error_emitted

fault_due(d, now_ms) ==
    d.s_fast_persist_armed /\ ~d.s_sd_error_emitted /\ time_reached(now_ms, d.s_fast_deadline_ms)

fault_latch_none(d) == d

fault_latch(d) == [d EXCEPT !.s_sd_error_emitted = TRUE]

fault_discriminator(d, now_ms) ==
    IF fault_due(d, now_ms)
    THEN fault_latch(emit_event(d, "EV_DVR_ERROR", "ERR_DVR_CARD_ERROR"))
    ELSE d

StoreSt(d) ==
    /\ s_last_pat' = d.s_last_pat
    /\ s_fast_persist_armed' = d.s_fast_persist_armed
    /\ s_fast_deadline_ms' = d.s_fast_deadline_ms
    /\ s_sd_error_emitted' = d.s_sd_error_emitted
    /\ s_recording' = d.s_recording
    /\ evq' = d.q
    /\ next_tag' = d.tg
    /\ ev_out' = d.out

ErrorsIn(out) == Cardinality({i \in 1..Len(out) : out[i].id = "EV_DVR_ERROR"})

Count(out, id) == Cardinality({i \in 1..Len(out) : out[i].id = id})

---------------------------------------------------------------------------
(* Steps *)

Step(kind, prev, pat) == [kind |-> kind, prev |-> prev, pat |-> pat]

MainIdle == fsm_pc = "idle" /\ st_pc = "idle"

CanPush == Len(evq.items) < MaxPending /\ (tagging => next_tag <= MaxTag)

ProducerPush(e) ==
    /\ evq' = eventq_push(evq, Stamp(e, next_tag))
    /\ next_tag' = TagAfter(evq, next_tag)

(* millis() advancing between two iterations of loop() *)
Tick ==
    /\ MainIdle
    /\ now < MaxTicks * TickMs
    /\ now' = now + TickMs
    /\ UNCHANGED <<evq, fsm_vars, fsm_hist, st_vars, st_hist, next_tag, tagging, aux_vars, prod_vars>>

(* drv_dvr_led_poll on its emitting path: the stable candidate p differs   *)
(* from s_reported and is reported                                         *)
LedBridgeEmit(p) ==
    /\ MainIdle
    /\ CanPush
    /\ p # s_reported
    /\ s_reported' = p
    /\ ProducerPush(Ev("EV_DVR_LED_PATTERN_CHANGED", p))
    /\ UNCHANGED <<now, fsm_vars, fsm_hist, st_vars, st_hist, tagging, aux_vars, s_int_level>>

(* button_poll emitting a classified gesture *)
ButtonEmit(id) ==
    /\ MainIdle
    /\ CanPush
    /\ ProducerPush(Ev(id, "0"))
    /\ UNCHANGED <<now, fsm_vars, fsm_hist, st_vars, st_hist, tagging, aux_vars, prod_vars>>

(* drv_fuel_gauge_poll emitting a battery event *)
BatteryEmit(id, bs) ==
    /\ MainIdle
    /\ CanPush
    /\ ProducerPush(Ev(id, bs))
    /\ UNCHANGED <<now, fsm_vars, fsm_hist, st_vars, st_hist, tagging, aux_vars, prod_vars>>

(* A semantic event reaching the queue while the interpreter itself is not *)
(* part of the specification                                               *)
SemanticEmit(id, arg0) ==
    /\ MainIdle
    /\ CanPush
    /\ ProducerPush(Ev(id, arg0))
    /\ UNCHANGED <<now, fsm_vars, fsm_hist, st_vars, st_hist, tagging, aux_vars, prod_vars>>

(* isr_ltc_int_change: runs between any two main-context steps *)
isr_ltc_int_change(level) ==
    /\ CanPush
    /\ level # s_int_level
    /\ s_int_level' = level
    /\ LET id == IF level = "LOW" THEN "EV_LTC_INT_ASSERTED" ELSE "EV_LTC_INT_DEASSERTED"
       IN  /\ evq' = eventq_push_isr(evq, Stamp(Ev(id, level), next_tag))
           /\ next_tag' = TagAfter(evq, next_tag)
    /\ UNCHANGED <<now, fsm_vars, fsm_hist, st_vars, st_hist, tagging, aux_vars, s_reported>>

(* controller_fsm_poll: the boot-timeout check, then one loop iteration    *)
(* per step until eventq_pop fails                                         *)
FsmPollBegin ==
    /\ MainIdle
    /\ StoreCtx(boot_timeout_check(Ctx, now))
    /\ fsm_pc' = "drain"
    /\ last_step' = Ev("BOOT_TIMEOUT_CHECK", "0")
    /\ pre' = Snapshot
    /\ UNCHANGED <<now, evq, fsm_max_tag, st_vars, st_hist, next_tag, tagging, aux_vars, prod_vars>>

FsmPollStep ==
    /\ fsm_pc = "drain"
    /\ ~eventq_empty(evq)
    /\ StoreCtx(fsm_dispatch(Ctx, eventq_front(evq)))
    /\ evq' = eventq_pop(evq)
    /\ last_step' = eventq_front(evq)
    /\ fsm_max_tag' = IF eventq_front(evq).tag > fsm_max_tag
                      THEN eventq_front(evq).tag ELSE fsm_max_tag
    /\ pre' = Snapshot
    /\ UNCHANGED <<now, fsm_pc, st_vars, st_hist, next_tag, tagging, aux_vars, prod_vars>>

FsmPollEnd ==
    /\ fsm_pc = "drain"
    /\ eventq_empty(evq)
    /\ fsm_pc' = "idle"
    /\ act_out' = <<>>
    /\ last_step' = Ev("POLL_END", "0")
    /\ pre' = Snapshot
    /\ UNCHANGED <<now, evq, fsm_vars, fsm_max_tag, st_vars, st_hist, next_tag, tagging, aux_vars,
                   prod_vars>>

(* drv_dvr_status_poll: poll_led_pattern_events one loop iteration per     *)
(* step, then the discriminator                                            *)
StPollBegin ==
    /\ MainIdle
    /\ st_pc' = "pop"
    /\ st_now' = now
    /\ stash' = <<>>
    /\ st_i' = 0
    /\ ev_out' = <<>>
    /\ st_step' = Step("begin", "-", "-")
    /\ UNCHANGED <<now, evq, fsm_vars, fsm_hist, st_vars, fast_since, fast_errs,
                   next_tag, tagging, aux_vars, prod_vars>>

StPopLed ==
    /\ st_pc = "pop"
    /\ ~eventq_empty(evq)
    /\ eventq_front(evq).id = "EV_DVR_LED_PATTERN_CHANGED"
    /\ LET ev == eventq_front(evq)
           d0 == [StCtx EXCEPT !.q = eventq_pop(evq)]
       IN  /\ StoreSt(on_led_event(d0, st_now, ev))
           /\ st_step' = Step("led", s_last_pat, ev.arg0)
           /\ fast_since' = IF ev.arg0 = s_last_pat THEN fast_since
                            ELSE IF ev.arg0 = "DVR_LED_FAST_BLINK" THEN st_now ELSE -1
           /\ fast_errs' = IF ev.arg0 # s_last_pat /\ ev.arg0 = "DVR_LED_FAST_BLINK"
                           THEN 0 ELSE fast_errs
    /\ UNCHANGED <<now, fsm_vars, fsm_hist, st_pc, st_now, stash, st_i, tagging, aux_vars, prod_vars>>

StPopOther ==
    /\ st_pc = "pop"
    /\ ~eventq_empty(evq)
    /\ eventq_front(evq).id # "EV_DVR_LED_PATTERN_CHANGED"
    /\ evq' = eventq_pop(evq)
    /\ IF Len(stash) < STASH_MAX
       THEN /\ stash' = Append(stash, eventq_front(evq))
            /\ st_pc' = "pop"
            /\ st_step' = Step("stash", "-", "-")
       ELSE /\ stash' = stash
            /\ st_pc' = "repush"
            /\ st_step' = Step("break", "-", "-")
    /\ ev_out' = <<>>
    /\ UNCHANGED <<now, fsm_vars, fsm_hist, st_vars, st_now, st_i, fast_since, fast_errs,
                   next_tag, tagging, aux_vars, prod_vars>>

StPopEmpty ==
    /\ st_pc = "pop"
    /\ eventq_empty(evq)
    /\ st_pc' = "repush"
    /\ ev_out' = <<>>
    /\ st_step' = Step("empty", "-", "-")
    /\ UNCHANGED <<now, evq, fsm_vars, fsm_hist, st_vars, st_now, stash, st_i, fast_since,
                   fast_errs, next_tag, tagging, aux_vars, prod_vars>>

StRepush ==
    /\ st_pc = "repush"
    /\ st_i < Len(stash)
    /\ evq' = eventq_push(evq, stash[st_i + 1])
    /\ st_i' = st_i + 1
    /\ ev_out' = <<>>
    /\ st_step' = Step("repush", "-", "-")
    /\ UNCHANGED <<now, fsm_vars, fsm_hist, st_vars, st_pc, st_now, stash, fast_since,
                   fast_errs, next_tag, tagging, aux_vars, prod_vars>>

StRepushDone ==
    /\ st_pc = "repush"
    /\ st_i >= Len(stash)
    /\ st_pc' = "deadline"
    /\ stash' = <<>>
    /\ st_i' = 0
    /\ ev_out' = <<>>
    /\ st_step' = Step("repushed", "-", "-")
    /\ UNCHANGED <<now, evq, fsm_vars, fsm_hist, st_vars, st_now, fast_since, fast_errs,
                   next_tag, tagging, aux_vars, prod_vars>>

StDeadline ==
    /\ st_pc = "deadline"
    /\ LET d == fault_discriminator(StCtx, st_now)
       IN  /\ StoreSt(d)
           /\ fast_errs' = fast_errs + ErrorsIn(d.out)
    /\ st_pc' = "idle"
    /\ st_step' = Step("deadline", "-", "-")
    /\ UNCHANGED <<now, fsm_vars, fsm_hist, st_now, stash, st_i, fast_since, tagging, aux_vars,
                   prod_vars>>

---------------------------------------------------------------------------
(* event_queue.cpp with its ring buffer: s_head, s_tail, s_buf, s_dropped  *)
(* as a record r.  On the AVR build every main-context operation runs in   *)
(* an ATOMIC_BLOCK and an interrupt handler runs with interrupts disabled, *)
(* so push and pop are single steps; eventq_count reads both indices in    *)
(* its ATOMIC_BLOCK and computes the result outside it.                    *)

Ring == [head |-> s_head, tail |-> s_tail, buf |-> s_buf, dropped |-> s_dropped]

NoEv == Ev("EV_NONE", "0")

next_index(idx) == IF idx + 1 >= CFG_EVENT_QUEUE_SIZE THEN 0 ELSE idx + 1

ring_full_never(r) == FALSE

ring_full(r) == next_index(r.head) = r.tail

ring_push_drop(r) == [r EXCEPT !.dropped = (@ + 1) % 65536]

ring_push_core_off_by_one(r, e) ==
    IF ring_full(r) THEN ring_push_drop(r)
    ELSE [r EXCEPT !.buf[next_index(r.head)] = e, !.head = next_index(r.head)]

ring_push_core_drop_oldest(r, e) ==
    IF ring_full(r)
    THEN [r EXCEPT !.buf[r.head] = e, !.head = next_index(r.head),
                   !.tail = next_index(r.tail), !.dropped = (@ + 1) % 65536]
    ELSE [r EXCEPT !.buf[r.head] = e, !.head = next_index(r.head)]

ring_push_core(r, e) ==
    IF ring_full(r) THEN ring_push_drop(r)
    ELSE [r EXCEPT !.buf[r.head] = e, !.head = next_index(r.head)]

ring_empty(r) == r.tail = r.head

ring_front(r) == r.buf[r.tail]

ring_pop(r) == [r EXCEPT !.tail = next_index(r.tail)]

eventq_count(h, t) == IF h >= t THEN h - t ELSE CFG_EVENT_QUEUE_SIZE - (t - h)

StoreRing(r) ==
    /\ s_head' = r.head
    /\ s_tail' = r.tail
    /\ s_buf' = r.buf
    /\ s_dropped' = r.dropped

other_vars == <<now, evq, fsm_vars, fsm_hist, st_vars, st_hist, next_tag, tagging, prod_vars,
                ex_vars, ex_hist, pw_vars, led_vars, ctrl_vars>>

(* The n-th push carries number n; pushes from the interrupt handler carry *)
(* an INT# event, pushes from the main context a button event.             *)
RingEv(id, n) == [Ev(id, "0") EXCEPT !.tag = n]

RingPushStep(op, id) ==
    LET e   == RingEv(id, ring_npush + 1)
        acc == ~ring_full(Ring)
    IN  /\ ring_npush < MaxPushes
        /\ StoreRing(ring_push_core(Ring, e))
        /\ ring_npush' = ring_npush + 1
        /\ ring_live' = IF acc THEN Append(ring_live, e) ELSE ring_live
        /\ ring_op' = [op |-> op, ok |-> acc, ev |-> e, exp |-> e]
        /\ ring_run' = IF ring_run >= 0 THEN ring_run + 1 ELSE ring_run
        /\ cnt_ret' = 0
        /\ UNCHANGED <<ring_prev_tag, ring_drop0>>

(* eventq_push called from the main context *)
RingPush ==
    /\ cnt_pc = "idle"
    /\ RingPushStep("push", "EV_BTN_SHORT_PRESS")
    /\ UNCHANGED <<other_vars, cnt_pc, cnt_h, cnt_t, ring_nisr>>

(* eventq_push_isr called from an interrupt handler: between any two steps *)
(* of the main context                                                     *)
RingPushIsr ==
    /\ ring_nisr < MaxIsrPushes
    /\ ring_nisr' = ring_nisr + 1
    /\ RingPushStep("push_isr", "EV_LTC_INT_ASSERTED")
    /\ UNCHANGED <<other_vars, cnt_pc, cnt_h, cnt_t>>

(* eventq_pop called from the main context *)
RingPop ==
    /\ cnt_pc = "idle"
    /\ IF ring_empty(Ring)
       THEN /\ ring_op' = [op |-> "pop", ok |-> FALSE, ev |-> NoEv,
                            exp |-> IF ring_live = <<>> THEN NoEv ELSE Head(ring_live)]
            /\ UNCHANGED <<s_head, s_tail, s_buf, s_dropped, ring_live, ring_prev_tag,
                           ring_run, ring_drop0>>
       ELSE /\ StoreRing(ring_pop(Ring))
            /\ ring_op' = [op |-> "pop", ok |-> TRUE, ev |-> ring_front(Ring),
                            exp |-> IF ring_live = <<>> THEN NoEv ELSE Head(ring_live)]
            /\ ring_prev_tag' = IF ring_op.op = "pop" /\ ring_op.ok THEN ring_op.ev.tag
                                ELSE ring_prev_tag
            /\ ring_live' = IF ring_live = <<>> THEN ring_live ELSE Tail(ring_live)
            /\ ring_run' = IF ring_empty(ring_pop(Ring)) THEN 0 ELSE -1
            /\ ring_drop0' = IF ring_empty(ring_pop(Ring)) THEN s_dropped ELSE ring_drop0
    /\ cnt_ret' = 0
    /\ UNCHANGED <<other_vars, cnt_pc, cnt_h, cnt_t, ring_npush, ring_nisr>>

(* eventq_count, the ATOMIC_BLOCK reading s_head and s_tail *)
RingCountRead ==
    /\ cnt_pc = "idle"
    /\ cnt_pc' = "read"
    /\ cnt_h' = s_head
    /\ cnt_t' = s_tail
    /\ UNCHANGED <<other_vars, s_head, s_tail, s_buf, s_dropped, cnt_ret, ring_hist>>

(* eventq_count, the computation on the local copies *)
RingCountReturn ==
    /\ cnt_pc = "read"
    /\ cnt_pc' = "idle"
    /\ cnt_ret' = eventq_count(cnt_h, cnt_t)
    /\ cnt_h' = 0
    /\ cnt_t' = 0
    /\ UNCHANGED <<other_vars, s_head, s_tail, s_buf, s_dropped, ring_hist>>

(* The action queue (action_queue.h): a queue of the same design as the    *)
(* event queue, CFG_ACTION_QUEUE_SIZE slots of which one stays free, a new *)
(* action being rejected when it is full.  An action in the queue is       *)
(* [id, arg0, tag]; tag is a history field numbering the controller's      *)
(* calls of actionq_push.                                                  *)

ExAct(id, arg0, n) == [id |-> id, arg0 |-> arg0, tag |-> n]
NoAct == ExAct("ACT_NONE", "0", 0)

actionq_full(q) == Len(q) >= CFG_ACTION_QUEUE_SIZE - 1

actionq_push(q, a) == IF actionq_full(q) THEN q ELSE Append(q, a)

---------------------------------------------------------------------------
(* executor.cpp as functions of a context record x holding its statics,    *)
(* the three output pins, the action queue q and history fields: req, the  *)
(* action being dispatched; cur, the action the button line was last       *)
(* asserted for; log, the calls of dvr_btn_set made so far; blog, the      *)
(* calls of buzz_set made so far, each with the level found; nstart, the   *)
(* calls of start_beep made so far; preon, the buzzer level found by the   *)
(* latest start_beep.                                                      *)

ExCtx ==
    [q |-> actq, s_led_pat |-> s_led_pat, s_led_level |-> s_led_level,
     s_led_next_ms |-> s_led_next_ms, s_beep_active |-> s_beep_active,
     s_beep_pat |-> s_beep_pat, s_beep_remaining |-> s_beep_remaining,
     s_beep_phase |-> s_beep_phase, s_beep_next_ms |-> s_beep_next_ms,
     s_dvr_active |-> s_dvr_active, s_dvr_pressed |-> s_dvr_pressed,
     s_dvr_next_ms |-> s_dvr_next_ms, s_dvr_press_ms |-> s_dvr_press_ms,
     PIN_STATUS_LED |-> PIN_STATUS_LED, PIN_BUZZER_OUT |-> PIN_BUZZER_OUT,
     PIN_DVR_BTN_CMD |-> PIN_DVR_BTN_CMD,
     handled |-> FALSE, req |-> NoAct, cur |-> ex_cur, log |-> <<>>,
     blog |-> <<>>, nstart |-> 0, preon |-> FALSE]

led_set(x, on) == [x EXCEPT !.PIN_STATUS_LED = on]

buzz_set(x, on) ==
    [x EXCEPT !.PIN_BUZZER_OUT = on,
              !.blog = Append(@, [on |-> on, was |-> x.PIN_BUZZER_OUT])]

dvr_btn_set(x, pressed) ==
    LET a == IF pressed THEN x.req ELSE x.cur
    IN  [x EXCEPT !.PIN_DVR_BTN_CMD = pressed, !.cur = a,
                  !.log = Append(@, [pressed |-> pressed, act |-> a])]

LedPatterns == {"LED_OFF", "LED_SOLID", "LED_SLOW_BLINK", "LED_FAST_BLINK",
                "LED_LOCKOUT_PATTERN", "LED_ERROR_PATTERN"}

led_step(x, now_ms) ==
    IF now_ms - x.s_led_next_ms < 0 THEN x
    ELSE IF x.s_led_pat = "LED_OFF"
    THEN [led_set(x, FALSE) EXCEPT !.s_led_level = FALSE, !.s_led_next_ms = now_ms + 1000]
    ELSE IF x.s_led_pat = "LED_SOLID"
    THEN [led_set(x, TRUE) EXCEPT !.s_led_level = TRUE, !.s_led_next_ms = now_ms + 1000]
    ELSE IF x.s_led_pat \in LedPatterns
    THEN LET on_ms  == IF x.s_led_pat = "LED_FAST_BLINK" THEN 100 ELSE 300
             off_ms == IF x.s_led_pat = "LED_FAST_BLINK" THEN 150 ELSE 700
         IN  IF ~x.s_led_level
             THEN [led_set(x, TRUE) EXCEPT !.s_led_level = TRUE,
                                           !.s_led_next_ms = now_ms + on_ms]
             ELSE [led_set(x, FALSE) EXCEPT !.s_led_level = FALSE,
                                            !.s_led_next_ms = now_ms + off_ms]
    ELSE [led_set(x, FALSE) EXCEPT !.s_led_pat = "LED_OFF", !.s_led_level = FALSE,
                                   !.s_led_next_ms = now_ms + 1000]

start_beep(x, now_ms, pat) ==
    LET remaining == CASE pat = "BEEP_SINGLE"     -> 1
                       [] pat = "BEEP_DOUBLE"     -> 2
                       [] pat = "BEEP_TRIPLE"     -> 3
                       [] pat = "BEEP_ERROR_FAST" -> 4
                       [] pat = "BEEP_LOW_BAT"    -> 2
                       [] OTHER                   -> 0
    IN  [x EXCEPT !.s_beep_pat = pat, !.s_beep_phase = 0, !.s_beep_remaining = remaining,
                  !.s_beep_active = (remaining > 0), !.s_beep_next_ms = now_ms,
                  !.nstart = @ + 1, !.preon = x.PIN_BUZZER_OUT]

(* Variant of beep_step: the end of a beep does not count it *)
beep_step_no_decrement(x, now_ms) ==
    IF ~x.s_beep_active THEN x
    ELSE IF now_ms - x.s_beep_next_ms < 0 THEN x
    ELSE IF x.s_beep_remaining = 0
    THEN [buzz_set(x, FALSE) EXCEPT !.s_beep_active = FALSE]
    ELSE IF x.s_beep_phase = 0
    THEN [buzz_set(x, TRUE) EXCEPT !.s_beep_next_ms = now_ms + T_BEEP_MS, !.s_beep_phase = 1]
    ELSE [buzz_set(x, FALSE) EXCEPT !.s_beep_next_ms = now_ms + T_BEEP_GAP_MS,
                                    !.s_beep_phase = 0]

beep_step(x, now_ms) ==
    IF ~x.s_beep_active THEN x
    ELSE IF now_ms - x.s_beep_next_ms < 0 THEN x
    ELSE IF x.s_beep_remaining = 0
    THEN [buzz_set(x, FALSE) EXCEPT !.s_beep_active = FALSE]
    ELSE IF x.s_beep_phase = 0
    THEN [buzz_set(x, TRUE) EXCEPT
              !.s_beep_next_ms = now_ms + (IF x.s_beep_pat = "BEEP_ERROR_FAST" THEN 50
                                           ELSE T_BEEP_MS),
              !.s_beep_phase = 1]
    ELSE IF x.s_beep_phase = 1
    THEN IF x.s_beep_remaining - 1 = 0
         THEN [buzz_set(x, FALSE) EXCEPT !.s_beep_remaining = 0,
                                         !.s_beep_next_ms = now_ms + T_DOUBLE_BEEP_GAP_MS,
                                         !.s_beep_phase = 2]
         ELSE [buzz_set(x, FALSE) EXCEPT !.s_beep_remaining = @ - 1,
                                         !.s_beep_next_ms = now_ms + T_BEEP_GAP_MS,
                                         !.s_beep_phase = 0]
    ELSE [x EXCEPT !.s_beep_active = FALSE]

(* Variant of start_dvr_press: a request made while a press is in progress *)
(* is ignored and reported as handled                                      *)
start_dvr_press_ignore_busy(x, now_ms, press_ms) ==
    IF x.s_dvr_active THEN [x EXCEPT !.handled = TRUE]
    ELSE [dvr_btn_set([x EXCEPT !.s_dvr_active = TRUE, !.s_dvr_pressed = TRUE,
                                !.s_dvr_press_ms = press_ms], TRUE)
          EXCEPT !.s_dvr_next_ms = now_ms + press_ms, !.handled = TRUE]

(* start_dvr_press; handled is the value it returns *)
start_dvr_press(x, now_ms, press_ms) ==
    IF x.s_dvr_active THEN [x EXCEPT !.handled = FALSE]
    ELSE [dvr_btn_set([x EXCEPT !.s_dvr_active = TRUE, !.s_dvr_pressed = TRUE,
                                !.s_dvr_press_ms = press_ms], TRUE)
          EXCEPT !.s_dvr_next_ms = now_ms + press_ms, !.handled = TRUE]

(* Variant of dvr_step: the engine goes idle at the release *)
dvr_step_no_gap(x, now_ms) ==
    IF ~x.s_dvr_active THEN x
    ELSE IF now_ms - x.s_dvr_next_ms < 0 THEN x
    ELSE IF x.s_dvr_pressed
    THEN [dvr_btn_set([x EXCEPT !.s_dvr_pressed = FALSE], FALSE)
          EXCEPT !.s_dvr_next_ms = now_ms, !.s_dvr_active = FALSE]
    ELSE [x EXCEPT !.s_dvr_active = FALSE]

dvr_step(x, now_ms) ==
    IF ~x.s_dvr_active THEN x
    ELSE IF now_ms - x.s_dvr_next_ms < 0 THEN x
    ELSE IF x.s_dvr_pressed
    THEN [dvr_btn_set([x EXCEPT !.s_dvr_pressed = FALSE], FALSE)
          EXCEPT !.s_dvr_next_ms = now_ms + T_DVR_PRESS_GAP_MS]
    ELSE [x EXCEPT !.s_dvr_active = FALSE]

(* The switch (a.id) of executor_poll; handled as the code leaves it *)
executor_dispatch(x, a, now_ms) ==
    LET y == [x EXCEPT !.req = a]
    IN  CASE a.id = "ACT_LED_PATTERN" ->
               [y EXCEPT !.s_led_pat = a.arg0, !.s_led_next_ms = now_ms, !.handled = TRUE]
          [] a.id = "ACT_BEEP" ->
               [start_beep(y, now_ms, a.arg0) EXCEPT !.handled = TRUE]
          [] a.id = "ACT_DVR_PRESS_SHORT" -> start_dvr_press(y, now_ms, T_DVR_PRESS_SHORT_MS)
          [] a.id = "ACT_DVR_PRESS_LONG"  -> start_dvr_press(y, now_ms, T_DVR_PRESS_LONG_MS)
          [] OTHER -> [y EXCEPT !.handled = FALSE]

(* The element of a set of one element: {e(v) : v \in {d}} hands the value *)
(* of d to e                                                               *)
Only(S) == CHOOSE v \in S : TRUE

(* The while (actionq_pop(&a)) loop of executor_poll; st is stash[0..n-1] *)
RECURSIVE executor_drain(_, _, _)
executor_drain(x, st, now_ms) ==
    IF x.q = <<>> THEN [x |-> x, stash |-> st]
    ELSE Only({ IF y.handled THEN executor_drain(y, st, now_ms)
                ELSE IF Len(st) < EXECUTOR_STASH_MAX
                     THEN executor_drain(y, Append(st, Head(x.q)), now_ms)
                     ELSE executor_drain(y, st, now_ms)
                : y \in {executor_dispatch([x EXCEPT !.q = Tail(@)], Head(x.q), now_ms)} })

(* The loop re-pushing stash[i..n-1] *)
RECURSIVE executor_repush(_, _)
executor_repush(x, st) ==
    IF st = <<>> THEN x
    ELSE executor_repush([x EXCEPT !.q = actionq_push(@, Head(st))], Tail(st))

executor_poll(x, now_ms) ==
    Only({ dvr_step(b, now_ms) :
             b \in { beep_step(l, now_ms) :
                       l \in { led_step(r, now_ms) :
                                 r \in { executor_repush(d.x, d.stash) :
                                           d \in {executor_drain(x, <<>>, now_ms)} } } } })

(* Writing a context back to the statics, the pins and the queue *)
StoreEx(x) ==
    /\ actq' = x.q
    /\ s_led_pat' = x.s_led_pat
    /\ s_led_level' = x.s_led_level
    /\ s_led_next_ms' = x.s_led_next_ms
    /\ s_beep_active' = x.s_beep_active
    /\ s_beep_pat' = x.s_beep_pat
    /\ s_beep_remaining' = x.s_beep_remaining
    /\ s_beep_phase' = x.s_beep_phase
    /\ s_beep_next_ms' = x.s_beep_next_ms
    /\ s_dvr_active' = x.s_dvr_active
    /\ s_dvr_pressed' = x.s_dvr_pressed
    /\ s_dvr_next_ms' = x.s_dvr_next_ms
    /\ s_dvr_press_ms' = x.s_dvr_press_ms
    /\ PIN_STATUS_LED' = x.PIN_STATUS_LED
    /\ PIN_BUZZER_OUT' = x.PIN_BUZZER_OUT
    /\ PIN_DVR_BTN_CMD' = x.PIN_DVR_BTN_CMD

non_ex_vars == <<now, evq, fsm_vars, fsm_hist, st_vars, st_hist, next_tag, tagging, prod_vars,
                 ring_vars, ring_hist, pw_vars, led_vars, ctrl_vars>>

PressIds == {"ACT_DVR_PRESS_SHORT", "ACT_DVR_PRESS_LONG"}

(* Hold time the waveform of a press action must have *)
PressMs(a) == IF a.id = "ACT_DVR_PRESS_LONG" THEN T_DVR_PRESS_LONG_MS ELSE T_DVR_PRESS_SHORT_MS

Asserted(log) == {i \in 1..Len(log) : log[i].pressed}
Released(log) == {i \in 1..Len(log) : ~log[i].pressed}

Bump(f, log, idx) ==
    [t \in DOMAIN f |->
        LET n == Cardinality({i \in idx : log[i].act.tag = t})
        IN  IF f[t] + n > 2 THEN 2 ELSE f[t] + n]

(* Beeps of a pattern: the switch (pat) of start_beep *)
BeepCount(pat) ==
    CASE pat \in {"BEEP_SINGLE"} -> 1
      [] pat \in {"BEEP_DOUBLE", "BEEP_LOW_BAT"} -> 2
      [] pat \in {"BEEP_TRIPLE"} -> 3
      [] pat \in {"BEEP_ERROR_FAST"} -> 4
      [] OTHER -> 0

NoBeep == [n |-> -1, ons |-> 0, rises |-> 0, preon |-> FALSE]

(* executor_poll(now), called from loop() *)
ExecutorPoll ==
    \E x \in {executor_poll(ExCtx, now)} :
        /\ StoreEx(x)
        /\ ex_cur' = x.cur
        /\ ex_requeued' = ex_requeued \cup {x.q[i].tag : i \in {j \in DOMAIN x.q :
                                                              x.q[j].id \in PressIds}}
        /\ ex_asserts' = Bump(ex_asserts, x.log, Asserted(x.log))
        /\ ex_releases' = Bump(ex_releases, x.log, Released(x.log))
        /\ ex_held' = IF x.log = <<>> THEN ex_held ELSE 0
        /\ ex_beep' =
              LET b == IF x.nstart > 0
                       THEN [n |-> BeepCount(x.s_beep_pat), ons |-> 0, rises |-> 0,
                             preon |-> x.preon]
                       ELSE ex_beep
                  on == {i \in DOMAIN x.blog : x.blog[i].on}
                  rise == {i \in on : ~x.blog[i].was}
              IN  [b EXCEPT !.ons = @ + Cardinality(on), !.rises = @ + Cardinality(rise)]
        /\ ex_since_release' = IF Released(x.log) # {} THEN 0 ELSE ex_since_release
        /\ ex_op' = [op |-> "poll",
                     kill |-> \E i \in DOMAIN actq : actq[i].id = "ACT_LTC_KILL_ASSERT",
                     asserted |-> Asserted(x.log) # {},
                     released |-> Released(x.log) # {},
                     gap_ok |-> \/ ex_since_release = -1
                                \/ ex_since_release >= T_DVR_PRESS_GAP_MS,
                     hold_ok |-> /\ PIN_DVR_BTN_CMD
                                 /\ ex_held >= PressMs(ex_cur)]
        /\ UNCHANGED <<non_ex_vars, ex_npush>>

(* The actions the controller and its UI policy hand to actionq_push *)
ExInputs ==
    {<<"ACT_DVR_PRESS_SHORT", "0">>, <<"ACT_DVR_PRESS_LONG", "0">>,
     <<"ACT_LED_PATTERN", "LED_SOLID">>, <<"ACT_LED_PATTERN", "LED_FAST_BLINK">>,
     <<"ACT_BEEP", "BEEP_SINGLE">>, <<"ACT_LTC_KILL_ASSERT", "0">>}

BeepInputs ==
    {<<"ACT_BEEP", "BEEP_SINGLE">>, <<"ACT_BEEP", "BEEP_DOUBLE">>, <<"ACT_BEEP", "BEEP_TRIPLE">>,
     <<"ACT_BEEP", "BEEP_ERROR_FAST">>, <<"ACT_BEEP", "BEEP_LOW_BAT">>}

(* actionq_push called by the controller: between two calls of executor_poll *)
ControllerPushOf(inputs) ==
    /\ ex_npush < MaxActs
    /\ \E in \in inputs :
         LET a == ExAct(in[1], in[2], ex_npush + 1)
         IN  /\ actq' = actionq_push(actq, a)
             /\ ex_asserts' = IF a.id \in PressIds /\ ~actionq_full(actq)
                              THEN [ex_asserts EXCEPT ![a.tag] = 0] ELSE ex_asserts
             /\ ex_op' = [op |-> "push", kill |-> FALSE, asserted |-> FALSE, released |-> FALSE,
                          gap_ok |-> TRUE, hold_ok |-> TRUE]
    /\ ex_npush' = ex_npush + 1
    /\ UNCHANGED <<non_ex_vars, s_led_pat, s_led_level, s_led_next_ms, s_beep_active,
                   s_beep_pat, s_beep_remaining, s_beep_phase, s_beep_next_ms, s_dvr_active,
                   s_dvr_pressed, s_dvr_next_ms, s_dvr_press_ms, PIN_STATUS_LED,
                   PIN_BUZZER_OUT, PIN_DVR_BTN_CMD, ex_releases, ex_cur, ex_requeued,
                   ex_held, ex_since_release, ex_beep>>

ControllerPush == ControllerPushOf(ExInputs)

(* The controller's UI policy requesting beeps only *)
BeepPush == ControllerPushOf(BeepInputs)

LightInputs == {<<"ACT_LED_PATTERN", p>> : p \in LedPatterns}

(* The controller's UI policy requesting light patterns only *)
LightPush == ControllerPushOf(LightInputs)

(* The first n writes of led_step to the status light when it is called at *)
(* each of its deadlines from time t on: the level written and the ms to   *)
(* the next write                                                          *)
RECURSIVE LedRun(_, _, _)
LedRun(x, t, n) ==
    IF n = 0 THEN <<>>
    ELSE LET y == led_step(x, t)
         IN  <<[on |-> y.PIN_STATUS_LED, ms |-> y.s_led_next_ms - t]>>
             \o LedRun(y, y.s_led_next_ms, n - 1)

(* The schedule the light engine generates from the state on when          *)
(* ACT_LED_PATTERN with pattern pat is dispatched now                      *)
LedSchedule(pat) ==
    LedRun(executor_dispatch(ExCtx, ExAct("ACT_LED_PATTERN", pat, 0), now), now, LedScheduleLen)

(* millis() advancing by ExTickMs between two iterations of loop(), in the *)
(* frame of the clock: executor.cpp reads a deadline only through the sign *)
(* of now_ms - deadline, so every deadline moves ExTickMs closer to now    *)
(* and a deadline that is reached stays at now.                            *)
Closer(deadline) == IF deadline - ExTickMs > now THEN deadline - ExTickMs ELSE now

Capped(ms, cap) == IF ms + ExTickMs > cap THEN cap ELSE ms + ExTickMs

ExTick ==
    /\ s_led_next_ms' = Closer(s_led_next_ms)
    /\ s_beep_next_ms' = Closer(s_beep_next_ms)
    /\ s_dvr_next_ms' = Closer(s_dvr_next_ms)
    /\ ex_held' = IF PIN_DVR_BTN_CMD THEN Capped(ex_held, T_DVR_PRESS_LONG_MS) ELSE ex_held
    /\ ex_since_release' = IF ex_since_release = -1 THEN -1
                           ELSE Capped(ex_since_release, T_DVR_PRESS_GAP_MS)
    /\ ex_op' = [op |-> "tick", kill |-> FALSE, asserted |-> FALSE, released |-> FALSE,
                 gap_ok |-> TRUE, hold_ok |-> TRUE]
    /\ UNCHANGED <<non_ex_vars, actq, s_led_pat, s_led_level, s_beep_active, s_beep_pat,
                   s_beep_remaining, s_beep_phase, s_dvr_active, s_dvr_pressed,
                   s_dvr_press_ms, PIN_STATUS_LED, PIN_BUZZER_OUT, PIN_DVR_BTN_CMD,
                   ex_npush, ex_asserts, ex_releases, ex_cur, ex_requeued, ex_beep>>

(* power_mgr.cpp: the KILL# output.  x is [pin, flag]: the level of        *)
(* PIN_KILL_N_O and g_kill_asserted.                                       *)
Kill == [pin |-> PIN_KILL_N_O, flag |-> g_kill_asserted]

power_mgr_kill_assert(x) == [x EXCEPT !.pin = TRUE, !.flag = TRUE]

power_mgr_kill_deassert(x) == [x EXCEPT !.pin = FALSE, !.flag = FALSE]

(* power_mgr_init, as far as the KILL# output goes *)
power_mgr_init(x) == power_mgr_kill_deassert(x)

StoreKill(x, op) ==
    /\ PIN_KILL_N_O' = x.pin
    /\ g_kill_asserted' = x.flag
    /\ pw_op' = op

non_pw_vars == <<now, evq, fsm_vars, fsm_hist, st_vars, st_hist, next_tag, tagging, prod_vars,
                 ring_vars, ring_hist, ex_vars, ex_hist, led_vars, ctrl_vars>>

(* Calls of the power manager's public functions from the main context *)
PowerMgrKillAssert ==
    /\ StoreKill(power_mgr_kill_assert(Kill), "kill_assert")
    /\ UNCHANGED non_pw_vars

PowerMgrKillDeassert ==
    /\ StoreKill(power_mgr_kill_deassert(Kill), "kill_deassert")
    /\ UNCHANGED non_pw_vars

PowerMgrInit ==
    /\ StoreKill(power_mgr_init(Kill), "init")
    /\ UNCHANGED non_pw_vars

(* pins_init and power_mgr_init at start-up *)
InitPw ==
    /\ PIN_KILL_N_O = FALSE
    /\ g_kill_asserted = FALSE
    /\ pw_op = "none"

(* executor_init with executor_abort_feedback, actionq_init *)
InitExQ(q) ==
    /\ actq = q
    /\ s_led_pat = "LED_OFF"
    /\ s_led_level = FALSE
    /\ s_led_next_ms = 0
    /\ s_beep_active = FALSE
    /\ s_beep_pat = "BEEP_NONE"
    /\ s_beep_remaining = 0
    /\ s_beep_phase = 0
    /\ s_beep_next_ms = 0
    /\ s_dvr_active = FALSE
    /\ s_dvr_pressed = FALSE
    /\ s_dvr_next_ms = 0
    /\ s_dvr_press_ms = 0
    /\ PIN_STATUS_LED = FALSE
    /\ PIN_BUZZER_OUT = FALSE
    /\ PIN_DVR_BTN_CMD = FALSE
    /\ ex_npush = 0
    /\ ex_asserts = [t \in 1..MaxActs |-> -1]
    /\ ex_releases = [t \in 1..MaxActs |-> 0]
    /\ ex_cur = NoAct
    /\ ex_requeued = {}
    /\ ex_beep = NoBeep
    /\ ex_held = 0
    /\ ex_since_release = -1
    /\ ex_op = [op |-> "init", kill |-> FALSE, asserted |-> FALSE, released |-> FALSE,
                gap_ok |-> TRUE, hold_ok |-> TRUE]

---------------------------------------------------------------------------
(* dvr_ctrl.cpp, driven as in main.cpp (the dvr_ctrl smoke test).          *)
(*                                                                         *)
(* A uint32_t value v is held as the integer v - 2^31: the order of the    *)
(* integers is then the unsigned order, and unsigned addition wraps from   *)
(* 2^31 - 1 to -2^31.                                                      *)

U32(v) == (v - 2147483647) - 1

U32Plus(a, d) ==
    IF a > 2147483647 - d
    THEN (((a - 2147483647) + (d - 1)) - 2147483647) - 1
    ELSE a + d

dvr_ctrl_assumed_state_t ==
    {"DVR_CTRL_ASSUME_OFF", "DVR_CTRL_ASSUME_ON_IDLE", "DVR_CTRL_ASSUME_ON_RECORDING"}

(* The configuration test_1_init_releases passes to dvr_ctrl_init *)
CtrlCfg == [press_short_ms |-> T_DVR_PRESS_SHORT_MS,
            press_long_ms  |-> T_DVR_PRESS_LONG_MS,
            boot_press_ms  |-> T_DVR_PRESS_LONG_MS,
            guard_ms       |-> T_DVR_PRESS_GAP_MS]

NoRet == [status |-> "-", noop |-> FALSE]

(* The object, the button output and the value returned by the call *)
CtrlCtx == [pin |-> g_last_asserted, ret |-> NoRet] @@ g_ctrl

req_busy(x) == [x EXCEPT !.ret = [status |-> "DVR_CTRL_REQ_BUSY", noop |-> FALSE]]

req_rejected(x) == [x EXCEPT !.ret = [status |-> "DVR_CTRL_REQ_REJECTED", noop |-> FALSE]]

req_accepted(x, noop) == [x EXCEPT !.ret = [status |-> "DVR_CTRL_REQ_ACCEPTED", noop |-> noop]]

(* btn_set_cb writes the pin and always returns true *)
btn_set_cb(x, asserted) == [x EXCEPT !.pin = asserted]

start_gesture(x, now_ms, name, hold_ms, do_state_update, next_state) ==
    IF now_ms < x.t_guard_until_ms
    THEN x
    ELSE [x EXCEPT !.busy = TRUE,
                   !.step = "DVR_CTRL_STEP_ASSERT",
                   !.active_gesture = name,
                   !.active_hold_ms = hold_ms,
                   !.pending_state_update = do_state_update,
                   !.pending_next_state = next_state,
                   !.t_deadline_ms = now_ms]

dvr_ctrl_init ==
    [cfg |-> CtrlCfg,
     assumed |-> "DVR_CTRL_ASSUME_OFF",
     busy |-> FALSE,
     btn_asserted |-> FALSE,
     t_deadline_ms |-> U32(0),
     t_guard_until_ms |-> U32(0),
     step |-> "DVR_CTRL_STEP_IDLE",
     active_gesture |-> "none",
     active_hold_ms |-> 0,
     pending_state_update |-> FALSE,
     pending_next_state |-> "DVR_CTRL_ASSUME_OFF"]

dvr_ctrl_set_assumed_state(x, st) == [x EXCEPT !.assumed = st]

dvr_ctrl_abort(x) ==
    LET g == U32Plus(x.t_deadline_ms, x.cfg.guard_ms)
    IN  [btn_set_cb(x, FALSE)
           EXCEPT !.btn_asserted = FALSE,
                  !.busy = FALSE,
                  !.step = "DVR_CTRL_STEP_IDLE",
                  !.active_gesture = "aborted",
                  !.active_hold_ms = 0,
                  !.pending_state_update = FALSE,
                  !.t_guard_until_ms = g,
                  !.t_deadline_ms = g]

(* on_done_cb only prints *)
dvr_ctrl_tick(x, now_ms) ==
    IF ~x.busy THEN x
    ELSE IF now_ms < x.t_deadline_ms THEN x
    ELSE CASE x.step = "DVR_CTRL_STEP_ASSERT" ->
                [btn_set_cb(x, TRUE)
                   EXCEPT !.btn_asserted = TRUE,
                          !.step = "DVR_CTRL_STEP_HOLD",
                          !.t_deadline_ms = U32Plus(now_ms, x.active_hold_ms)]
           [] x.step = "DVR_CTRL_STEP_HOLD" ->
                [x EXCEPT !.step = "DVR_CTRL_STEP_RELEASE",
                          !.t_deadline_ms = now_ms]
           [] x.step = "DVR_CTRL_STEP_RELEASE" ->
                [btn_set_cb(x, FALSE)
                   EXCEPT !.btn_asserted = FALSE,
                          !.assumed = IF x.pending_state_update
                                      THEN x.pending_next_state ELSE @,
                          !.pending_state_update = FALSE,
                          !.t_guard_until_ms = U32Plus(now_ms, x.cfg.guard_ms),
                          !.busy = FALSE,
                          !.step = "DVR_CTRL_STEP_IDLE",
                          !.active_gesture = "none",
                          !.active_hold_ms = 0]
           [] OTHER -> dvr_ctrl_abort(x)

dvr_request_power_on(x, now_ms) ==
    IF x.busy THEN req_busy(x)
    ELSE IF x.assumed \in {"DVR_CTRL_ASSUME_ON_IDLE", "DVR_CTRL_ASSUME_ON_RECORDING"}
    THEN req_accepted(x, TRUE)
    ELSE IF now_ms < x.t_guard_until_ms THEN req_busy(x)
    ELSE LET y == start_gesture(x, now_ms, "power_on", x.cfg.boot_press_ms,
                                TRUE, "DVR_CTRL_ASSUME_ON_IDLE")
         IN  IF ~y.busy THEN req_busy(y) ELSE req_accepted(y, FALSE)

dvr_request_toggle_record(x, now_ms) ==
    IF x.busy THEN req_busy(x)
    ELSE IF x.assumed = "DVR_CTRL_ASSUME_OFF" THEN req_rejected(x)
    ELSE IF now_ms < x.t_guard_until_ms THEN req_busy(x)
    ELSE LET next == IF x.assumed = "DVR_CTRL_ASSUME_ON_RECORDING"
                     THEN "DVR_CTRL_ASSUME_ON_IDLE"
                     ELSE "DVR_CTRL_ASSUME_ON_RECORDING"
             y == start_gesture(x, now_ms, "toggle_record", x.cfg.press_short_ms,
                                TRUE, next)
         IN  IF ~y.busy THEN req_busy(y) ELSE req_accepted(y, FALSE)

dvr_request_power_off(x, now_ms) ==
    IF x.busy THEN req_busy(x)
    ELSE IF x.assumed = "DVR_CTRL_ASSUME_OFF" THEN req_accepted(x, TRUE)
    ELSE IF now_ms < x.t_guard_until_ms THEN req_busy(x)
    ELSE LET y == start_gesture(x, now_ms, "power_off", x.cfg.press_long_ms,
                                TRUE, "DVR_CTRL_ASSUME_OFF")
         IN  IF ~y.busy THEN req_busy(y) ELSE req_accepted(y, FALSE)

CtrlRequests == {"power_on", "toggle_record", "power_off"}

dvr_request(op, x, now_ms) ==
    CASE op = "power_on"      -> dvr_request_power_on(x, now_ms)
      [] op = "toggle_record" -> dvr_request_toggle_record(x, now_ms)
      [] op = "power_off"     -> dvr_request_power_off(x, now_ms)

(* Whether the request, made of an idle object outside the guard window,   *)
(* schedules a press rather than being a no-op or being rejected           *)
NeedsPress(op, x) ==
    IF op = "power_on" THEN x.assumed = "DVR_CTRL_ASSUME_OFF"
                       ELSE x.assumed # "DVR_CTRL_ASSUME_OFF"

(* History: the latest call (op), its result, the object before it, and    *)
(* the time since the latest release (since_release) and since the latest  *)
(* abort of a running gesture (since_abort), -1 if there was none or a     *)
(* gesture has been started since; rel and abt are these two times at the  *)
(* moment of the latest call.                                              *)
CtrlHist0 == [op |-> "init", status |-> "-", noop |-> FALSE, real |-> FALSE,
              busy0 |-> FALSE, step0 |-> "DVR_CTRL_STEP_IDLE",
              assumed0 |-> "DVR_CTRL_ASSUME_OFF", started |-> FALSE,
              rel |-> -1, abt |-> -1, since_release |-> -1, since_abort |-> -1,
              elapsed |-> 0, aborts |-> 0]

StoreCtrl(op, y) ==
    LET x == CtrlCtx
        started  == ~x.busy /\ y.busy
        released == op = "tick" /\ x.busy /\ x.step = "DVR_CTRL_STEP_RELEASE" /\ ~y.busy
    IN  /\ g_ctrl' = [f \in DOMAIN g_ctrl |-> y[f]]
        /\ g_last_asserted' = y.pin
        /\ ctrl_h' = [ctrl_h EXCEPT
              !.op = op,
              !.status = y.ret.status,
              !.noop = y.ret.noop,
              !.real = op \in CtrlRequests /\ NeedsPress(op, x),
              !.busy0 = x.busy,
              !.step0 = x.step,
              !.assumed0 = x.assumed,
              !.started = started,
              !.rel = ctrl_h.since_release,
              !.abt = ctrl_h.since_abort,
              !.since_release = IF released THEN 0 ELSE IF started THEN -1 ELSE @,
              !.since_abort = IF op = "abort" /\ x.busy THEN 0
                              ELSE IF started THEN -1 ELSE @,
              !.aborts = IF op = "abort" THEN @ + 1 ELSE @]
        /\ UNCHANGED ctrl_ms

non_ctrl_vars == <<now, evq, fsm_vars, fsm_hist, st_vars, st_hist, next_tag, tagging, prod_vars,
                   ring_vars, ring_hist, ex_vars, ex_hist, pw_vars, led_vars>>

CtrlCapped(ms) ==
    IF ms + CtrlTickMs > T_DVR_PRESS_GAP_MS THEN T_DVR_PRESS_GAP_MS ELSE ms + CtrlTickMs

(* delay() and the time the sketch spends between two calls *)
CtrlClock ==
    /\ ctrl_h.elapsed + CtrlTickMs <= MaxCtrlMs
    /\ ctrl_ms' = U32Plus(ctrl_ms, CtrlTickMs)
    /\ ctrl_h' = [ctrl_h EXCEPT
          !.elapsed = @ + CtrlTickMs,
          !.since_release = IF @ < 0 THEN @ ELSE CtrlCapped(@),
          !.since_abort = IF @ < 0 THEN @ ELSE CtrlCapped(@)]
    /\ UNCHANGED <<g_ctrl, g_last_asserted, non_ctrl_vars>>

(* The sketch has been up for 2^32 - CtrlWrapLeadMs ms before its first    *)
(* call after dvr_ctrl_init                                                *)
CtrlLongWait ==
    /\ ctrl_h.op = "init"
    /\ ctrl_h.elapsed = 0
    /\ ctrl_ms = U32(0)
    /\ ctrl_ms' = 2147483647 - (CtrlWrapLeadMs - 1)
    /\ UNCHANGED <<g_ctrl, g_last_asserted, ctrl_h, non_ctrl_vars>>

DvrCtrlTick ==
    /\ StoreCtrl("tick", dvr_ctrl_tick(CtrlCtx, ctrl_ms))
    /\ UNCHANGED non_ctrl_vars

DvrRequest ==
    /\ \E op \in CtrlRequests : StoreCtrl(op, dvr_request(op, CtrlCtx, ctrl_ms))
    /\ UNCHANGED non_ctrl_vars

DvrCtrlAbort ==
    /\ ctrl_h.aborts < MaxAborts
    /\ StoreCtrl("abort", dvr_ctrl_abort(CtrlCtx))
    /\ UNCHANGED non_ctrl_vars

DvrCtrlSetAssumedState ==
    /\ \E st \in dvr_ctrl_assumed_state_t \ {g_ctrl.assumed} :
          StoreCtrl("set_assumed_state", dvr_ctrl_set_assumed_state(CtrlCtx, st))
    /\ UNCHANGED non_ctrl_vars

(* test_1_init_releases: pin LOW, dvr_ctrl_init *)
InitCtrl ==
    /\ g_ctrl = dvr_ctrl_init
    /\ g_last_asserted = FALSE
    /\ ctrl_ms = U32(0)
    /\ ctrl_h = CtrlHist0

InitEx == InitExQ(<<>>)

(* eventq_init *)
InitAuxQ(q) ==
    /\ InitExQ(q)
    /\ InitPw
    /\ InitCtrl
    /\ s_head = 0
    /\ s_tail = 0
    /\ s_buf = [i \in 0..(CFG_EVENT_QUEUE_SIZE - 1) |-> NoEv]
    /\ s_dropped = 0
    /\ cnt_pc = "idle"
    /\ cnt_h = 0
    /\ cnt_t = 0
    /\ cnt_ret = 0
    /\ ring_live = <<>>
    /\ ring_npush = 0
    /\ ring_nisr = 0
    /\ ring_op = [op |-> "init", ok |-> TRUE, ev |-> NoEv, exp |-> NoEv]
    /\ ring_prev_tag = 0
    /\ ring_run = 0
    /\ ring_drop0 = 0

---------------------------------------------------------------------------
(* Initial states: controller_fsm_init, drv_dvr_status_init, eventq_init,  *)
(* drv_dvr_led_init                                                        *)

InitCoreQ(q) ==
    /\ now = 0
    /\ evq = [items |-> <<>>, dropped |-> 0]
    /\ LET c == controller_fsm_init
       IN  /\ s_state = c.s_state
           /\ s_bat = c.s_bat
           /\ s_lockout = c.s_lockout
           /\ s_err = c.s_err
           /\ s_boot_deadline_ms = c.s_boot_deadline_ms
           /\ s_shutdown_pending = c.s_shutdown_pending
           /\ s_stop_pending = c.s_stop_pending
           /\ s_last_state = c.s_last_state
           /\ s_last_led = c.s_last_led
           /\ act_out = c.out
           /\ pre = [c EXCEPT !.out = <<>>]
    /\ fsm_pc = "idle"
    /\ last_step = Ev("INIT", "0")
    /\ fsm_max_tag = 0
    /\ s_last_pat = "DVR_LED_UNKNOWN"
    /\ s_recording = FALSE
    /\ s_fast_persist_armed = FALSE
    /\ s_fast_deadline_ms = 0
    /\ s_sd_error_emitted = FALSE
    /\ st_pc = "idle"
    /\ st_now = 0
    /\ stash = <<>>
    /\ st_i = 0
    /\ ev_out = <<>>
    /\ st_step = Step("init", "-", "-")
    /\ fast_since = -1
    /\ fast_errs = 0
    /\ next_tag = 1
    /\ s_reported = "DVR_LED_UNKNOWN"
    /\ s_int_level = "HIGH"
    /\ InitAuxQ(q)

InitAux == InitAuxQ(<<>>)

(* The statics after the init functions, the action queue empty *)
InitCore == InitCoreQ(<<>>)

---------------------------------------------------------------------------
(* dvr_led.cpp: the classifier of the DVR status LED.  An edge is          *)
(* [t_us, level, n]; n is a history field numbering the calls of the       *)
(* interrupt handler.  The edge ring is a record q of s_edgeq, s_edgeq_w   *)
(* and s_edgeq_r; the classifier's statics and its history are a record c. *)
(* The handler runs with interrupts disabled and edgeq_pop runs between    *)
(* noInterrupts() and interrupts(), so each is a single step.              *)

NoEdge == [t_us |-> 0, level |-> 0, n |-> 0]

EdgeQ == [buf |-> s_edgeq, w |-> s_edgeq_w, r |-> s_edgeq_r]

(* micros() at the time millis() reads now *)
micros == now * 1000

(* Variant of dvr_led_isr_change: the edge is stored without the full test *)
dvr_led_isr_change_no_full_test(q, e) ==
    [q EXCEPT !.buf[q.w] = e, !.w = (q.w + 1) % EDGEQ_N]

(* dvr_led_isr_change, e holding micros() and the level read from the pin *)
dvr_led_isr_change(q, e) ==
    LET w == q.w
        w_next == (w + 1) % EDGEQ_N
    IN  IF w_next = q.r
        THEN q
        ELSE [q EXCEPT !.buf[w] = e, !.w = w_next]

(* edgeq_pop: ok, the edge copied out and the ring afterwards *)
edgeq_pop(q) ==
    LET r == q.r
    IN  IF r # q.w
        THEN [ok |-> TRUE, out |-> q.buf[r], q |-> [q EXCEPT !.r = (r + 1) % EDGEQ_N]]
        ELSE [ok |-> FALSE, out |-> NoEdge, q |-> q]

(* The edges stored in the ring, oldest first *)
EdgeqContents(q) ==
    [i \in 1..((q.w - q.r + EDGEQ_N) % EDGEQ_N) |-> q.buf[(q.r + i - 1) % EDGEQ_N]]

BlinkPatterns == {"DVR_LED_SLOW_BLINK", "DVR_LED_FAST_BLINK"}

classify_period(period_ms, on_ms, off_ms) ==
    IF /\ period_ms >= T_FAST_MIN_MS /\ period_ms <= T_FAST_MAX_MS
       /\ on_ms >= T_FAST_EDGE_MIN_MS /\ on_ms <= T_FAST_EDGE_MAX_MS
       /\ off_ms >= T_FAST_EDGE_MIN_MS /\ off_ms <= T_FAST_EDGE_MAX_MS
    THEN "DVR_LED_FAST_BLINK"
    ELSE IF /\ period_ms >= T_SLOW_MIN_MS /\ period_ms <= T_SLOW_MAX_MS
            /\ on_ms >= T_SLOW_EDGE_MIN_MS /\ on_ms <= T_SLOW_EDGE_MAX_MS
            /\ off_ms >= T_SLOW_EDGE_MIN_MS /\ off_ms <= T_SLOW_EDGE_MAX_MS
    THEN "DVR_LED_SLOW_BLINK"
    ELSE "DVR_LED_UNKNOWN"

(* (v > 0xFFFFu) ? 0xFFFFu : (uint16_t)v *)
U16Sat(v) == IF v > 65535 THEN 65535 ELSE v

(* (uint32_t)(a - b) >= t for a, b below 2^31 and 2 <= t: when a < b the   *)
(* difference is 2^32 - (b - a), and 2^32 - (b - a) >= t is written with   *)
(* numbers below 2^31                                                      *)
U32DiffAtLeast(a, b, t) ==
    IF a >= b
    THEN a - b >= t
    ELSE (b - a) - 2147483647 <= 2147483647 - (t - 2)

LedCtx ==
    [s_pat |-> s_pat, s_level |-> s_level, s_last_edge_ms |-> s_last_edge_ms,
     s_last_on_ms |-> s_last_on_ms, s_last_off_ms |-> s_last_off_ms,
     s_last_period_ms |-> s_last_period_ms, s_level_start_us |-> s_level_start_us,
     h |-> led_h]

(* History of the period classifications: the band of the latest one and   *)
(* how many in a row fell in it (counted up to 2)                          *)
Classified(h, per_pat) ==
    [h EXCEPT !.band = per_pat,
              !.run = IF per_pat = "DVR_LED_UNKNOWN" THEN 0
                      ELSE IF per_pat = h.band THEN 2
                      ELSE 1]

(* History of the published pattern: how the latest write changed it *)
Published(h, how, from, to, quiet) ==
    [h EXCEPT !.pub = [how |-> how, from |-> from, to |-> to, run |-> h.run,
                       quiet |-> quiet]]

(* Body of the while (edgeq_pop(&e)) loop of dvr_led_poll, from "Record    *)
(* duration of previous level" to the classification                       *)
dvr_led_measure(c, dt_ms) ==
    LET c1 == IF c.s_level = LOW
              THEN [c EXCEPT !.s_last_on_ms = U16Sat(dt_ms)]
              ELSE [c EXCEPT !.s_last_off_ms = U16Sat(dt_ms)]
    IN  IF c1.s_last_on_ms # 0 /\ c1.s_last_off_ms # 0
        THEN LET p == U16Sat(c1.s_last_on_ms + c1.s_last_off_ms)
                 per_pat == classify_period(p, c1.s_last_on_ms, c1.s_last_off_ms)
                 h1 == Classified(c1.h, per_pat)
             IN  IF per_pat # "DVR_LED_UNKNOWN"
                 THEN [c1 EXCEPT !.s_last_period_ms = p, !.s_pat = per_pat,
                                 !.h = Published(h1, "period", c.s_pat, per_pat, 0)]
                 ELSE [c1 EXCEPT !.s_last_period_ms = p, !.h = h1]
        ELSE c1

(* Body of the while (edgeq_pop(&e)) loop of dvr_led_poll.  Edges are      *)
(* stored in the order of their times, so e.t_us - s_level_start_us does   *)
(* not wrap.                                                               *)
dvr_led_edge(c, e) ==
    LET new_level == e.level % 2
        dt_us == e.t_us - c.s_level_start_us
        dt_ms == dt_us \div 1000
    IN  IF new_level = c.s_level
        THEN c
        ELSE IF dt_ms < DVR_LED_GLITCH_MS
        THEN [c EXCEPT !.s_level = new_level, !.s_level_start_us = e.t_us]
        ELSE [dvr_led_measure(c, dt_ms) EXCEPT
                 !.s_level = new_level,
                 !.s_level_start_us = e.t_us,
                 !.s_last_edge_ms = e.t_us \div 1000]

(* The quiet-time rule at the end of dvr_led_poll; the history keeps       *)
(* now_ms - s_last_edge_ms as a signed number                              *)
dvr_led_quiet(c, now_ms, lvl) ==
    IF U32DiffAtLeast(now_ms, c.s_last_edge_ms, T_SOLID_MS)
    THEN LET to == IF lvl = LOW THEN "DVR_LED_SOLID" ELSE "DVR_LED_OFF"
         IN  [c EXCEPT !.s_pat = to,
                       !.h = Published(c.h, "quiet", c.s_pat, to,
                                       now_ms - c.s_last_edge_ms)]
    ELSE c

StoreLed(c) ==
    /\ s_pat' = c.s_pat
    /\ s_level' = c.s_level
    /\ s_last_edge_ms' = c.s_last_edge_ms
    /\ s_last_on_ms' = c.s_last_on_ms
    /\ s_last_off_ms' = c.s_last_off_ms
    /\ s_last_period_ms' = c.s_last_period_ms
    /\ s_level_start_us' = c.s_level_start_us
    /\ led_h' = c.h

StoreEdgeQ(q) ==
    /\ s_edgeq' = q.buf
    /\ s_edgeq_w' = q.w
    /\ s_edgeq_r' = q.r

led_statics == <<s_pat, s_level, s_last_edge_ms, s_last_on_ms, s_last_off_ms,
                 s_last_period_ms, s_level_start_us>>

led_frame == <<evq, fsm_vars, fsm_hist, st_vars, st_hist, next_tag, tagging, prod_vars,
               ring_vars, ring_hist, ex_vars, ex_hist, pw_vars, ctrl_vars>>

(* The LED line changes level at time t_us and the interrupt handler runs; *)
(* h is the history before the call                                        *)
IsrEdge(h, t_us) ==
    LET lvl == 1 - PIN_DVR_STAT
        e == [t_us |-> t_us, level |-> lvl, n |-> h.nedge + 1]
        q == dvr_led_isr_change(EdgeQ, e)
        kept == EdgeqContents(q) = EdgeqContents(EdgeQ)
    IN  /\ PIN_DVR_STAT' = lvl
        /\ StoreEdgeQ(q)
        /\ led_h' = [h EXCEPT !.nedge = @ + 1,
                              !.drops = IF kept THEN @ + 1 ELSE @,
                              !.live = IF kept THEN @ ELSE Append(@, e),
                              !.op = [op |-> "isr",
                                      full |-> (s_edgeq_w + 1) % EDGEQ_N = s_edgeq_r,
                                      kept |-> kept, got |-> e, exp |-> e]]

(* An edge of a signal that changes level at any moment *)
LedSignalEdge ==
    /\ sig.free
    /\ led_h.nedge < sig.maxe
    /\ IsrEdge(led_h, micros)
    /\ UNCHANGED <<now, led_statics, led_pc, led_now_ms, level_now, sig, led_frame>>

(* The time to the next edge of a signal that follows a script *)
SigAfterEdge(g) ==
    LET i == IF g.i < Len(g.script) THEN g.i + 1
             ELSE IF g.loop THEN 1 ELSE 0
    IN  [g EXCEPT !.i = i, !.left = IF i = 0 THEN -1 ELSE g.script[i]]

(* The clock steps that may be taken in the state *)
LedSteps ==
    IF led_pc = "captured" THEN {LoopLagMs}
    ELSE IF sig.free \/ sig.left < 0 THEN sig.ticks
    ELSE {sig.left, sig.left - LoopLagMs}

(* millis() and micros() advancing by d; a scripted signal changes level   *)
(* when its time has come.  loop() runs at least once per step: the clock  *)
(* steps between two iterations only after dvr_led_poll has returned, and  *)
(* once, by LoopLagMs, between millis() and the call of dvr_led_poll, in   *)
(* up to MaxLags iterations.                                               *)
LedTick(d) ==
    /\ d > 0
    /\ now + d <= sig.tmax
    /\ led_pc \in {"idle", "captured"}
    /\ led_pc = "idle" => led_h.polled
    /\ led_pc = "captured" => led_h.lags < MaxLags
    /\ now' = now + d
    /\ led_pc' = IF led_pc = "captured" THEN "lagged" ELSE led_pc
    /\ \E h \in {[led_h EXCEPT !.polled = IF led_pc = "idle" THEN FALSE ELSE @,
                                !.lags = IF led_pc = "idle" THEN @ ELSE @ + 1]} :
          IF sig.free \/ sig.left < 0
          THEN /\ led_h' = h
               /\ UNCHANGED <<PIN_DVR_STAT, s_edgeq, s_edgeq_w, s_edgeq_r, sig>>
          ELSE /\ d <= sig.left
               /\ IF d = sig.left
                  THEN /\ led_h.nedge < sig.maxe
                       /\ IsrEdge(h, (now + d) * 1000)
                       /\ sig' = SigAfterEdge(sig)
                  ELSE /\ led_h' = h
                       /\ sig' = [sig EXCEPT !.left = @ - d]
                       /\ UNCHANGED <<PIN_DVR_STAT, s_edgeq, s_edgeq_w, s_edgeq_r>>
    /\ UNCHANGED <<led_statics, led_now_ms, level_now, led_frame>>

(* loop(): const uint32_t now = millis(), and what runs before the         *)
(* classifier is polled                                                    *)
LoopBegin ==
    /\ led_pc = "idle"
    /\ led_pc' = "captured"
    /\ led_now_ms' = now
    /\ UNCHANGED <<now, PIN_DVR_STAT, s_edgeq, s_edgeq_w, s_edgeq_r, led_statics,
                   level_now, sig, led_h, led_frame>>

(* dvr_led_poll up to its loop: level_now = digitalRead(PIN_DVR_STAT) *)
DvrLedPollBegin ==
    /\ led_pc \in {"captured", "lagged"}
    /\ led_pc' = "drain"
    /\ level_now' = PIN_DVR_STAT
    /\ UNCHANGED <<now, PIN_DVR_STAT, s_edgeq, s_edgeq_w, s_edgeq_r, led_statics,
                   led_now_ms, sig, led_h, led_frame>>

(* dvr_led_poll: one call of edgeq_pop with the loop body, or, when the    *)
(* ring is empty, the quiet-time rule and the return                       *)
DvrLedPollStep ==
    /\ led_pc = "drain"
    /\ LET p == edgeq_pop(EdgeQ)
           exp == IF led_h.live = <<>> THEN NoEdge ELSE Head(led_h.live)
           h == [led_h EXCEPT !.live = IF @ = <<>> THEN @ ELSE Tail(@),
                              !.op = [op |-> "pop", full |-> FALSE, kept |-> ~p.ok,
                                      got |-> p.out, exp |-> exp]]
       IN  IF p.ok
           THEN /\ StoreEdgeQ(p.q)
                /\ StoreLed(dvr_led_edge([LedCtx EXCEPT !.h = h], p.out))
                /\ led_pc' = "drain"
           ELSE /\ StoreLed(dvr_led_quiet([LedCtx EXCEPT !.h = [h EXCEPT !.polled = TRUE]],
                                          led_now_ms, level_now))
                /\ led_pc' = "idle"
                /\ UNCHANGED <<s_edgeq, s_edgeq_w, s_edgeq_r>>
    /\ UNCHANGED <<now, PIN_DVR_STAT, led_now_ms, level_now, sig, led_frame>>

NoPub == [how |-> "none", from |-> "DVR_LED_UNKNOWN", to |-> "DVR_LED_UNKNOWN", run |-> 0,
          quiet |-> 0]

LedHist0 ==
    [nedge |-> 0, drops |-> 0, lags |-> 0, live |-> <<>>, polled |-> TRUE, band |-> "DVR_LED_UNKNOWN", run |-> 0,
     pub |-> NoPub,
     op |-> [op |-> "init", full |-> FALSE, kept |-> TRUE, got |-> NoEdge, exp |-> NoEdge]]

(* dvr_led_init at time 0 with the line at level lvl *)
dvr_led_init(lvl) ==
    /\ PIN_DVR_STAT = lvl
    /\ s_edgeq = [i \in 0..(EDGEQ_N - 1) |-> NoEdge]
    /\ s_edgeq_w = 0
    /\ s_edgeq_r = 0
    /\ s_pat = "DVR_LED_UNKNOWN"
    /\ s_level = lvl
    /\ s_level_start_us = 0
    /\ s_last_edge_ms = 0
    /\ s_last_on_ms = 0
    /\ s_last_off_ms = 0
    /\ s_last_period_ms = 0
    /\ led_pc = "idle"
    /\ led_now_ms = 0
    /\ level_now = lvl
    /\ led_h = LedHist0

(* A signal that changes level at any moment, up to maxe times, the clock  *)
(* stepping by any of ticks up to tmax                                     *)
FreeSignal(ticks, maxe, tmax) ==
    [free |-> TRUE, script |-> <<>>, loop |-> FALSE, i |-> 0, left |-> -1, ticks |-> ticks,
     maxe |-> maxe, tmax |-> tmax]

(* A signal that changes level after each duration of script in turn, and  *)
(* again and again when loop is set, up to maxe times; once it has stopped *)
(* the clock steps by any of ticks; the clock stops at tmax                *)
ScriptedSignal(script, loop, ticks, maxe, tmax) ==
    [free |-> FALSE, script |-> script, loop |-> loop, i |-> 1, left |-> script[1],
     ticks |-> ticks, maxe |-> maxe, tmax |-> tmax]

InitCommon ==
    /\ InitCore
    /\ dvr_led_init(HIGH)
    /\ sig = FreeSignal({}, 0, 0)

---------------------------------------------------------------------------
(* The classifier on a signal that changes level at any moment *)

LedTicks == {500, 1000}

InitLed ==
    /\ InitCore
    /\ tagging = FALSE
    /\ \E lvl \in {LOW, HIGH} : dvr_led_init(lvl)
    /\ sig = FreeSignal(LedTicks, MaxLedEdges, MaxLedMs)

NextLed ==
    \/ LedSignalEdge
    \/ \E d \in LedSteps : LedTick(d)
    \/ LoopBegin
    \/ DvrLedPollBegin
    \/ DvrLedPollStep

SpecLed == InitLed /\ [][NextLed]_vars

(* The edge ring under a burst of edges: the clock steps only inside       *)
(* loop()                                                                  *)
InitEdgeq ==
    /\ InitCore
    /\ tagging = FALSE
    /\ \E lvl \in {LOW, HIGH} : dvr_led_init(lvl)
    /\ sig = FreeSignal({}, MaxRingEdges, LoopLagMs * MaxLags)

SpecEdgeq == InitEdgeq /\ [][NextLed]_vars

(* The classifier on a signal that follows a script *)
NextScripted ==
    \/ \E d \in LedSteps : LedTick(d)
    \/ LoopBegin
    \/ DvrLedPollBegin
    \/ DvrLedPollStep

(* A square wave of 50% duty: the half periods at the ends and inside the  *)
(* windows of classify_period                                              *)
WaveHalfPeriods ==
    {T_FAST_MIN_MS \div 2, 100, T_FAST_MAX_MS \div 2,
     T_SLOW_MIN_MS \div 2, 1000, T_SLOW_MAX_MS \div 2}

(* What the classifier may hold when the wave begins: any pattern, either  *)
(* level, and durations left by an earlier signal                          *)
StartDurations == {0, 100, 1000}

InitWave ==
    /\ InitCore
    /\ tagging = FALSE
    /\ PIN_DVR_STAT \in {LOW, HIGH}
    /\ s_edgeq = [i \in 0..(EDGEQ_N - 1) |-> NoEdge]
    /\ s_edgeq_w = 0
    /\ s_edgeq_r = 0
    /\ s_pat \in dvr_led_pattern_t \ {"DVR_LED_ABNORMAL_BOOT"}
    /\ s_level \in {LOW, HIGH}
    /\ s_level_start_us = 0
    /\ s_last_edge_ms = 0
    /\ s_last_on_ms \in StartDurations
    /\ s_last_off_ms \in StartDurations
    /\ s_last_period_ms = 0
    /\ led_pc = "idle"
    /\ led_now_ms = 0
    /\ level_now = PIN_DVR_STAT
    /\ led_h = LedHist0
    /\ \E h \in WaveHalfPeriods :
          sig = ScriptedSignal(<<h>>, TRUE, {}, MaxWaveEdges, MaxWaveEdges * h)

SpecWave == InitWave /\ [][NextScripted]_vars

(* The abnormal-boot signature of timings.h: after d0 ms the light blinks  *)
(* slowly, n times with half period h, and stays off                       *)
AbnScript(d0, h, n) == <<d0>> \o [i \in 1..(2 * n - 1) |-> h]

AbnScripts ==
    {AbnScript(d0, h, n) : d0 \in {1000, 2000},
                            h \in {T_ABN_SLOW_MIN_MS \div 2, T_ABN_BLINK_BURST_MS \div 2},
                            n \in {1, 2}}

InitAbn ==
    /\ InitCore
    /\ tagging = FALSE
    /\ dvr_led_init(HIGH)
    /\ \E sc \in AbnScripts : sig = ScriptedSignal(sc, FALSE, {500, 1000}, Len(sc), MaxAbnMs)

SpecAbn == InitAbn /\ [][NextScripted]_vars

---------------------------------------------------------------------------
(* The controller FSM fed with every event it dispatches on *)

BatteryInputs == {<<"EV_BAT_STATE_CHANGED", "BAT_CRITICAL">>,
                  <<"EV_BAT_STATE_CHANGED", "BAT_FULL">>,
                  <<"EV_BAT_LOCKOUT_ENTER", "0">>,
                  <<"EV_BAT_LOCKOUT_EXIT", "0">>}

SemanticInputs == {<<"EV_DVR_POWERED_ON_IDLE", "0">>, <<"EV_DVR_POWERED_OFF", "0">>,
                   <<"EV_DVR_RECORD_STARTED", "0">>, <<"EV_DVR_RECORD_STOPPED", "0">>,
                   <<"EV_DVR_ERROR", "ERR_DVR_CARD_ERROR">>}

InitFsm == InitCommon /\ tagging = FALSE

NextFsm ==
    \/ Tick
    \/ \E id \in ButtonIds : ButtonEmit(id)
    \/ \E b \in BatteryInputs : BatteryEmit(b[1], b[2])
    \/ \E x \in SemanticInputs : SemanticEmit(x[1], x[2])
    \/ FsmPollBegin
    \/ FsmPollStep
    \/ FsmPollEnd

SpecFsm == InitFsm /\ [][NextFsm]_vars

---------------------------------------------------------------------------
(* Properties of the controller FSM.  last_step is the event the latest    *)
(* step of controller_fsm_poll handled, pre the statics before that step,  *)
(* act_out the actions that step passed to actionq_push.                   *)

DvrPresses(out) == Count(out, "ACT_DVR_PRESS_SHORT") + Count(out, "ACT_DVR_PRESS_LONG")

NoOp == Ctx = pre /\ act_out = <<>>

(* C1: a LongPress accepted in Recording issues the stop request and sets  *)
(* both latches with the state still Recording; when RecordStopped is then *)
(* handled with both latches set (and no lockout) the state becomes Idle   *)
(* and exactly one ACT_DVR_PRESS_LONG is passed on by that step itself,    *)
(* and the stop latch is cleared so that it is not passed on again.        *)
C1_StopThenPowerOff ==
    /\ (last_step.id = "EV_BTN_LONG_PRESS" /\ pre.s_state = "STATE_RECORDING"
          /\ ~pre.s_lockout /\ ~pre.s_shutdown_pending)
       => /\ s_state = "STATE_RECORDING"
          /\ s_shutdown_pending /\ s_stop_pending
          /\ Count(act_out, "ACT_DVR_PRESS_SHORT") = 1
          /\ Count(act_out, "ACT_DVR_PRESS_LONG") = 0
    /\ (last_step.id = "EV_DVR_RECORD_STOPPED" /\ ~pre.s_lockout
          /\ pre.s_shutdown_pending /\ pre.s_stop_pending)
       => /\ s_state = "STATE_IDLE"
          /\ Count(act_out, "ACT_DVR_PRESS_LONG") = 1
          /\ Count(act_out, "ACT_DVR_PRESS_SHORT") = 0
          /\ s_shutdown_pending /\ ~s_stop_pending

C1_Witness ==
    /\ last_step.id = "EV_DVR_RECORD_STOPPED"
    /\ pre.s_state = "STATE_RECORDING"
    /\ pre.s_shutdown_pending /\ pre.s_stop_pending
    /\ s_state = "STATE_IDLE"
    /\ Count(act_out, "ACT_DVR_PRESS_LONG") = 1

(* C2: handling EV_BAT_LOCKOUT_ENTER leaves the state Lockout with the     *)
(* lockout flag set, whatever the state was; while the flag is set a       *)
(* ShortPress or LongPress changes no static and passes on no action; and  *)
(* only handling EV_BAT_LOCKOUT_EXIT clears the flag.                      *)
C2_LockoutDominance ==
    /\ last_step.id = "EV_BAT_LOCKOUT_ENTER" => s_state = "STATE_LOCKOUT" /\ s_lockout
    /\ (last_step.id \in ButtonIds /\ pre.s_lockout) => NoOp
    /\ (pre.s_lockout /\ ~s_lockout) => last_step.id = "EV_BAT_LOCKOUT_EXIT"

C2_Witness ==
    /\ last_step.id \in ButtonIds
    /\ pre.s_lockout
    /\ pre.s_state = "STATE_LOCKOUT"
    /\ NoOp

C4_ShutdownPendingDiscards ==
    /\ (last_step.id = "EV_BTN_LONG_PRESS" /\ DvrPresses(act_out) > 0) => s_shutdown_pending
    /\ (last_step.id \in ButtonIds /\ pre.s_shutdown_pending) => NoOp
    /\ (pre.s_shutdown_pending /\ ~s_shutdown_pending)
       => last_step.id = "EV_DVR_POWERED_OFF"

C4_Witness ==
    /\ last_step.id \in ButtonIds
    /\ pre.s_shutdown_pending
    /\ ~pre.s_lockout
    /\ NoOp

(* C5 (as stated): a step that takes the controller from Booting to Idle   *)
(* is the handling of EV_DVR_POWERED_ON_IDLE.                              *)
C5_BootingToIdleOnlyOnPoweredOnIdle ==
    (pre.s_state = "STATE_BOOTING" /\ s_state = "STATE_IDLE")
    => last_step.id = "EV_DVR_POWERED_ON_IDLE"

(* C6: when controller_fsm_poll starts in Booting with the boot deadline   *)
(* reached, its first step leaves the state Error with                     *)
(* ERR_DVR_BOOT_TIMEOUT; so past the deadline no event is ever handled in  *)
(* Booting.                                                                *)
C6_BootTimeout ==
    /\ (last_step.id = "BOOT_TIMEOUT_CHECK" /\ fsm_pc = "drain"
          /\ pre.s_state = "STATE_BOOTING" /\ time_reached(now, pre.s_boot_deadline_ms))
       => (s_state = "STATE_ERROR" /\ s_err = "ERR_DVR_BOOT_TIMEOUT")
    /\ (fsm_pc = "drain" /\ time_reached(now, s_boot_deadline_ms))
       => s_state # "STATE_BOOTING"

C6_Witness ==
    /\ last_step.id = "BOOT_TIMEOUT_CHECK"
    /\ pre.s_state = "STATE_BOOTING"
    /\ time_reached(now, pre.s_boot_deadline_ms)
    /\ s_state = "STATE_ERROR"
    /\ s_err = "ERR_DVR_BOOT_TIMEOUT"

---------------------------------------------------------------------------
(* The status interpreter between the LED bridge and the controller FSM *)

InitInterp == InitCommon /\ tagging = FALSE

NextInterp ==
    \/ Tick
    \/ \E p \in dvr_led_pattern_t : LedBridgeEmit(p)
    \/ \E id \in ButtonIds : ButtonEmit(id)
    \/ StPollBegin
    \/ StPopLed
    \/ StPopOther
    \/ StPopEmpty
    \/ StRepush
    \/ StRepushDone
    \/ StDeadline
    \/ FsmPollBegin
    \/ FsmPollStep
    \/ FsmPollEnd

SpecInterp == InitInterp /\ [][NextInterp]_vars

(* The whole event path, every accepted producer push numbered *)

InitPipe == InitCommon /\ tagging = TRUE

NextPipe ==
    \/ \E p \in dvr_led_pattern_t : LedBridgeEmit(p)
    \/ \E id \in ButtonIds : ButtonEmit(id)
    \/ \E level \in {"LOW", "HIGH"} : isr_ltc_int_change(level)
    \/ StPollBegin
    \/ StPopLed
    \/ StPopOther
    \/ StPopEmpty
    \/ StRepush
    \/ StRepushDone
    \/ StDeadline
    \/ FsmPollBegin
    \/ FsmPollStep
    \/ FsmPollEnd

SpecPipe == InitPipe /\ [][NextPipe]_vars

---------------------------------------------------------------------------
(* Properties of the status interpreter.  st_step is the latest step of    *)
(* drv_dvr_status_poll (for a handled LED event: the pattern before and    *)
(* the pattern reported), ev_out the events that step passed to            *)
(* eventq_push, fast_since the poll time at which the current FastBlink    *)
(* episode was observed to begin (-1 outside an episode), fast_errs the    *)
(* EV_DVR_ERROR events passed on since then.                               *)

(* C7: a step of the interpreter passes on EV_DVR_RECORD_STOPPED exactly   *)
(* when it handles a pattern change from SlowBlink to Solid or from        *)
(* SlowBlink to Off, and then exactly once; a change from SlowBlink to     *)
(* FastBlink or Unknown, any other change, and every other step pass on    *)
(* none.                                                                   *)
C7_RecordStoppedIff ==
    Count(ev_out, "EV_DVR_RECORD_STOPPED") =
        IF /\ st_step.kind = "led"
           /\ st_step.prev = "DVR_LED_SLOW_BLINK"
           /\ st_step.pat \in {"DVR_LED_SOLID", "DVR_LED_OFF"}
        THEN 1 ELSE 0

C7_Witness ==
    /\ st_step = Step("led", "DVR_LED_SLOW_BLINK", "DVR_LED_SOLID")
    /\ Count(ev_out, "EV_DVR_RECORD_STOPPED") = 1

(* C8: during a FastBlink episode at most one EV_DVR_ERROR is passed on,   *)
(* it carries ERR_DVR_CARD_ERROR, and once a poll of the interpreter has   *)
(* completed at or after T_BOOT_TIMEOUT_MS from the start of the episode   *)
(* exactly one has been passed on.                                         *)
C8_OneCardFaultPerEpisode ==
    /\ s_last_pat = "DVR_LED_FAST_BLINK"
       => /\ fast_errs <= 1
          /\ (st_pc = "idle" /\ st_now >= fast_since + T_BOOT_TIMEOUT_MS) => fast_errs = 1
    /\ \A i \in 1..Len(ev_out) :
          ev_out[i].id = "EV_DVR_ERROR" => ev_out[i].arg0 = "ERR_DVR_CARD_ERROR"

C8_Witness ==
    /\ s_last_pat = "DVR_LED_FAST_BLINK"
    /\ st_pc = "idle"
    /\ st_step.kind = "deadline"
    /\ st_now >= fast_since + T_BOOT_TIMEOUT_MS + TickMs
    /\ fast_errs = 1
    /\ ev_out = <<>>

(* C9: EV_DVR_ERROR is passed on only by the discriminator, only while the *)
(* pattern is FastBlink and only at a poll time at least T_BOOT_TIMEOUT_MS *)
(* after the current episode began; so an episode that ended earlier (in   *)
(* Off or in any other pattern) yields none, then or later.                *)
C9_NoFaultAfterShortEpisode ==
    ErrorsIn(ev_out) > 0
    => /\ st_step.kind = "deadline"
       /\ s_last_pat = "DVR_LED_FAST_BLINK"
       /\ fast_since >= 0
       /\ st_now >= fast_since + T_BOOT_TIMEOUT_MS

C9_Witness ==
    /\ st_step = Step("led", "DVR_LED_FAST_BLINK", "DVR_LED_OFF")
    /\ st_now > 0
    /\ fast_errs = 0
    /\ ~s_fast_persist_armed

(* C10 (as stated): every event the FSM pops was accepted into the queue   *)
(* after every event it popped before.                                     *)
C10_FsmSeesPushOrder ==
    last_step.tag = 0 \/ last_step.tag = fsm_max_tag

(* C11 (as stated): no step other than a step of controller_fsm_poll takes *)
(* an event out of the event queue, drops it or pushes it back: the latest *)
(* step of drv_dvr_status_poll is never a pop (of an LED event it keeps,   *)
(* of another event it stashes or drops) nor a re-push.                    *)
C11_OnlyFsmPops ==
    st_step.kind \notin {"led", "stash", "break", "repush"}

---------------------------------------------------------------------------
(* The event queue alone: pushes from both contexts, pops and counts *)

InitRing == InitCommon /\ tagging = FALSE

NextRing ==
    \/ RingPush
    \/ RingPushIsr
    \/ RingPop
    \/ RingCountRead
    \/ RingCountReturn

SpecRing == InitRing /\ [][NextRing]_vars

(* The executor alone, fed by the controller *)
InitExec == InitCommon /\ tagging = FALSE

NextExec ==
    \/ ControllerPush
    \/ ExecutorPoll
    \/ ExTick

SpecExec == InitExec /\ [][NextExec]_vars

(* The executor and the power manager's KILL# functions *)
NextPower ==
    \/ NextExec
    \/ PowerMgrKillAssert
    \/ PowerMgrKillDeassert
    \/ PowerMgrInit

SpecPower == InitExec /\ [][NextPower]_vars

(* The executor fed with beep requests *)
NextBeep ==
    \/ BeepPush
    \/ ExecutorPoll
    \/ ExTick

SpecBeep == InitExec /\ [][NextBeep]_vars

SpecBeepLive == SpecBeep /\ WF_vars(ExecutorPoll) /\ WF_vars(ExTick)

(* The executor fed with light patterns *)
NextLight ==
    \/ LightPush
    \/ ExecutorPoll
    \/ ExTick

SpecLight == InitExec /\ [][NextLight]_vars

(* loop() never stops calling executor_poll, and millis() never stops *)
SpecExecLive == SpecExec /\ WF_vars(ExecutorPoll) /\ WF_vars(ExTick)

---------------------------------------------------------------------------
(* Properties of the event queue.  ring_live is the sequence of accepted   *)
(* events not yet popped; ring_op is the latest operation with its result  *)
(* ok, the event ev it pushed or returned and, for a pop, the event exp it *)
(* had to return; ring_run counts the pushes made since the queue was      *)
(* empty while no pop has been made; ring_drop0 is s_dropped at that time. *)

IsPush == ring_op.op \in {"push", "push_isr"}

(* The slots from s_tail up to s_head hold the accepted, unpopped events *)
RingHoldsLive ==
    /\ Len(ring_live) = eventq_count(s_head, s_tail)
    /\ \A i \in 1..Len(ring_live) :
          s_buf[(s_tail + i - 1) % CFG_EVENT_QUEUE_SIZE] = ring_live[i]

PopReturnsOldest ==
    ring_op.op = "pop" => /\ ring_op.ok = (ring_op.exp # NoEv)
                          /\ ring_op.ev = ring_op.exp

(* C12 (as stated): each of the first N = CFG_EVENT_QUEUE_SIZE pushes onto *)
(* an empty queue, no pop in between, is accepted.                         *)
C12_FirstNPushesAccepted ==
    (IsPush /\ ring_run \in 1..CFG_EVENT_QUEUE_SIZE) => ring_op.ok

(* C12 (amended): each of the first N - 1 pushes onto an empty queue, no   *)
(* pop in between, is accepted and the queue then holds exactly the pushed *)
(* events, in push order; every pop returns the oldest accepted event not  *)
(* yet popped, every field as pushed, and fails only on an empty queue.    *)
C12_FifoUpToNMinusOne ==
    /\ (IsPush /\ ring_run \in 1..(CFG_EVENT_QUEUE_SIZE - 1))
       => /\ ring_op.ok
          /\ Len(ring_live) = ring_run
          /\ ring_live[ring_run] = ring_op.ev
          /\ RingHoldsLive
    /\ PopReturnsOldest

C12_Witness ==
    /\ ring_op.op = "pop" /\ ring_op.ok
    /\ ring_npush = CFG_EVENT_QUEUE_SIZE - 1
    /\ ring_op.ev.tag = CFG_EVENT_QUEUE_SIZE - 1
    /\ ring_live = <<>>
    /\ s_dropped = 0

(* C13 (as stated): of N + 1 pushes onto an empty queue, no pop in         *)
(* between, only the last is rejected, N events stay in the queue and      *)
(* s_dropped has grown by exactly 1.                                       *)
C13_OnlyPushNPlusOneRejected ==
    /\ (IsPush /\ ring_run \in 1..CFG_EVENT_QUEUE_SIZE) => ring_op.ok
    /\ (IsPush /\ ring_run = CFG_EVENT_QUEUE_SIZE + 1)
       => /\ ~ring_op.ok
          /\ Len(ring_live) = CFG_EVENT_QUEUE_SIZE
          /\ s_dropped = ring_drop0 + 1

(* C13 (amended): of N pushes onto an empty queue, no pop in between, only *)
(* the last is rejected: the queue still holds the N - 1 events pushed     *)
(* before it, in push order, and s_dropped has grown by exactly 1.         *)
C13_OnlyPushNRejected ==
    /\ (IsPush /\ ring_run \in 1..(CFG_EVENT_QUEUE_SIZE - 1))
       => (ring_op.ok /\ s_dropped = ring_drop0)
    /\ (IsPush /\ ring_run = CFG_EVENT_QUEUE_SIZE)
       => /\ ~ring_op.ok
          /\ s_dropped = ring_drop0 + 1
          /\ Len(ring_live) = CFG_EVENT_QUEUE_SIZE - 1
          /\ \A i \in 1..Len(ring_live) : ring_live[i].tag = ring_op.ev.tag - ring_run + i
          /\ RingHoldsLive

C13_Witness ==
    /\ IsPush
    /\ ring_run = CFG_EVENT_QUEUE_SIZE
    /\ ~ring_op.ok
    /\ s_dropped = ring_drop0 + 1

(* C14: with eventq_push_isr running between any two steps of the main     *)
(* context (eventq_push, eventq_pop, the two halves of eventq_count),      *)
(* s_head and s_tail stay in 0..N-1, the slots between them hold exactly   *)
(* the accepted events not yet popped, every pop returns the oldest of     *)
(* them, and the events popped carry strictly increasing push numbers.     *)
C14_RingSafeUnderIsr ==
    /\ s_head \in 0..(CFG_EVENT_QUEUE_SIZE - 1)
    /\ s_tail \in 0..(CFG_EVENT_QUEUE_SIZE - 1)
    /\ RingHoldsLive
    /\ ring_op.op = "pop" => ring_op.ev = ring_op.exp
    /\ (ring_op.op = "pop" /\ ring_op.ok) => ring_op.ev.tag > ring_prev_tag
    /\ cnt_ret \in 0..(CFG_EVENT_QUEUE_SIZE - 1)

C14_Witness ==
    /\ cnt_pc = "read"
    /\ ring_op.op = "push_isr" /\ ring_op.ok
    /\ s_head < s_tail
    /\ cnt_h # s_head

---------------------------------------------------------------------------
(* Executor properties *)

InActq(t) == {i \in DOMAIN actq : actq[i].tag = t}

(* A press action the action queue accepted is waiting in the queue until  *)
(* the button line is asserted for it, once, and released for it, once,    *)
(* after the hold time of its gesture                                      *)
PressKept ==
    /\ \A t \in 1..MaxActs :
          ex_asserts[t] >= 0 =>
             /\ ex_asserts[t] <= 1
             /\ ex_releases[t] <= ex_asserts[t]
             /\ Cardinality(InActq(t)) = 1 - ex_asserts[t]
    /\ ex_op.released => ex_op.hold_ok

C16_GapBeforeNextPress ==
    ex_op.asserted => ex_op.gap_ok

C16_Witness ==
    /\ ex_op.asserted
    /\ ex_since_release >= T_DVR_PRESS_GAP_MS
    /\ ex_releases[1] + ex_releases[2] >= 1

---------------------------------------------------------------------------
(* Controller properties, continued *)

(* A button event that passes the lockout gate and the shutdown gate *)
ButtonAccepted(id) ==
    /\ last_step.id = id
    /\ ~pre.s_lockout
    /\ ~pre.s_shutdown_pending

(* C17: a LongPress accepted in Recording passes on the stop request, one  *)
(* device short-press and nothing else for the device button, and the      *)
(* state is still Recording after it; the power-off long-press is not      *)
(* passed on by that step                                                  *)
C17_RecordingLongPressStopsFirst ==
    (ButtonAccepted("EV_BTN_LONG_PRESS") /\ pre.s_state = "STATE_RECORDING")
    => /\ s_state = "STATE_RECORDING"
       /\ DvrPresses(act_out) = 1
       /\ Count(act_out, "ACT_DVR_PRESS_SHORT") = 1

C17_Witness ==
    /\ ButtonAccepted("EV_BTN_LONG_PRESS")
    /\ pre.s_state = "STATE_RECORDING"
    /\ s_state = "STATE_RECORDING"
    /\ Count(act_out, "ACT_DVR_PRESS_SHORT") = 1
    /\ Count(act_out, "ACT_DVR_PRESS_LONG") = 0

(* C18: a ShortPress accepted in Idle passes on exactly one device         *)
(* short-press, no other action, and changes no static, so the state stays *)
(* Idle; and a step that takes the controller from Idle to Recording is    *)
(* the handling of EV_DVR_RECORD_STARTED                                   *)
C18_IdleShortPressAwaitsRecordStarted ==
    /\ (ButtonAccepted("EV_BTN_SHORT_PRESS") /\ pre.s_state = "STATE_IDLE")
       => /\ Ctx = pre
          /\ Len(act_out) = 1
          /\ Count(act_out, "ACT_DVR_PRESS_SHORT") = 1
    /\ (pre.s_state = "STATE_IDLE" /\ s_state = "STATE_RECORDING")
       => last_step.id = "EV_DVR_RECORD_STARTED"

C18_Witness ==
    /\ ButtonAccepted("EV_BTN_SHORT_PRESS")
    /\ pre.s_state = "STATE_IDLE"
    /\ s_state = "STATE_IDLE"
    /\ Count(act_out, "ACT_DVR_PRESS_SHORT") = 1
    /\ ~eventq_empty(evq)
    /\ eventq_front(evq).id = "EV_DVR_RECORD_STARTED"

(* C19 (as stated): handling EV_DVR_ERROR leaves the state Error when it   *)
(* was Idle, Recording, LowBattery or Error, and leaves the state as it    *)
(* was when it was Off or Booting                                          *)
C19_DeviceErrorPerState ==
    last_step.id = "EV_DVR_ERROR"
    => /\ pre.s_state \in {"STATE_IDLE", "STATE_RECORDING", "STATE_LOW_BAT", "STATE_ERROR"}
          => s_state = "STATE_ERROR"
       /\ pre.s_state \in {"STATE_OFF", "STATE_BOOTING"} => s_state = pre.s_state

(* C20 (as stated): handling EV_DVR_RECORD_STARTED leaves the state as it  *)
(* was unless it was Idle, and then leaves it Idle or Recording            *)
C20_RecordStartedOnlyFromIdle ==
    last_step.id = "EV_DVR_RECORD_STARTED"
    => /\ pre.s_state # "STATE_IDLE" => s_state = pre.s_state
       /\ pre.s_state = "STATE_IDLE" => s_state \in {"STATE_IDLE", "STATE_RECORDING"}

(* C21 (as stated): handling EV_BAT_STATE_CHANGED with BAT_CRITICAL and no *)
(* lockout leaves the state LowBattery when it was Idle or Recording and   *)
(* leaves the state as it was when it was Off, Booting, LowBattery or      *)
(* Error                                                                   *)
C21_CriticalOnlyFromIdleOrRecording ==
    (last_step.id = "EV_BAT_STATE_CHANGED" /\ last_step.arg0 = "BAT_CRITICAL"
       /\ ~pre.s_lockout)
    => /\ pre.s_state \in {"STATE_IDLE", "STATE_RECORDING"} => s_state = "STATE_LOW_BAT"
       /\ pre.s_state \in {"STATE_OFF", "STATE_BOOTING", "STATE_LOW_BAT", "STATE_ERROR"}
          => s_state = pre.s_state

(* C22 (as stated): a LongPress handled in Error without lockout passes on *)
(* a device long-press, whatever was handled before                        *)
C22_ErrorLongPressPowersOff ==
    (last_step.id = "EV_BTN_LONG_PRESS" /\ pre.s_state = "STATE_ERROR" /\ ~pre.s_lockout)
    => Count(act_out, "ACT_DVR_PRESS_LONG") = 1

---------------------------------------------------------------------------
(* Power-cut properties *)

(* C23 (as stated): when executor_poll has taken ACT_LTC_KILL_ASSERT from  *)
(* the action queue, the KILL# output is asserted                          *)
C23_KillActionAssertsKill ==
    (ex_op.op = "poll" /\ ex_op.kill) => PIN_KILL_N_O

(* C24 (as stated): no step takes the KILL# output from asserted to        *)
(* de-asserted, and power_mgr_kill_assert called with the output asserted  *)
(* changes nothing                                                         *)
C24_KillNeverRevoked ==
    [][PIN_KILL_N_O => /\ PIN_KILL_N_O'
                       /\ pw_op' = "kill_assert" /\ pw_op # pw_op'
                          => g_kill_asserted' = g_kill_asserted]_vars

---------------------------------------------------------------------------
(* Beeper properties *)

BeeperIdle == ~s_beep_active /\ ~PIN_BUZZER_OUT

(* Since the latest beep request buzz_set(true) was called at most as many *)
(* times as the pattern has beeps, and exactly as many when the engine has *)
(* gone idle; the buzzer went from off to on as many times, less one when  *)
(* the request found the buzzer on                                         *)
BeepCounted ==
    ex_beep.n >= 0 =>
       /\ ex_beep.ons <= ex_beep.n
       /\ ~s_beep_active =>
            /\ ex_beep.ons = ex_beep.n
            /\ ex_beep.rises = ex_beep.n - (IF ex_beep.preon THEN 1 ELSE 0)
            /\ ~PIN_BUZZER_OUT

(* C30: after start_beep for a pattern of N beeps, with no later request,  *)
(* beep_step switches the buzzer on exactly N times and, as executor_poll  *)
(* keeps being called and time advances, the engine goes idle with the     *)
(* buzzer off                                                              *)
C30_BeepSequenceCompletes ==
    /\ []BeepCounted
    /\ s_beep_active ~> BeeperIdle

C30_Witness ==
    /\ ex_beep.n = 4
    /\ ex_beep.ons = 4
    /\ BeeperIdle

---------------------------------------------------------------------------
(* Classifier properties *)

(* C26 (as stated): when a period classification has changed the published *)
(* pattern, to SlowBlink or FastBlink, it was at least the second          *)
(* classification in a row to fall in that band                            *)
C26_BlinkAfterTwoInBand ==
    (led_h.pub.how = "period" /\ led_h.pub.to # led_h.pub.from) => led_h.pub.run >= 2

(* C27 (as stated): when the quiet-time rule has overwritten a published   *)
(* SlowBlink or FastBlink, the time from the last accepted edge to the     *)
(* poll's now_ms was at least T_SOLID_MS plus the longest blink period     *)
C27_BlinkStickyUntilSolidPlusPeriod ==
    (led_h.pub.how = "quiet" /\ led_h.pub.from \in BlinkPatterns)
    => led_h.pub.quiet >= T_SOLID_MS + T_SLOW_MAX_MS

(* C29: the indices of the edge ring stay inside the ring, the ring holds  *)
(* exactly the edges accepted and not yet popped, oldest first, a call of  *)
(* the interrupt handler that finds the ring full leaves it as it was, and *)
(* every successful edgeq_pop returns the oldest of them, whatever the     *)
(* interleaving of the handler with the steps of dvr_led_poll              *)
C29_EdgeRingSafe ==
    /\ s_edgeq_w \in 0..(EDGEQ_N - 1)
    /\ s_edgeq_r \in 0..(EDGEQ_N - 1)
    /\ EdgeqContents(EdgeQ) = led_h.live
    /\ (led_h.op.op = "isr" /\ led_h.op.full) => led_h.op.kept
    /\ (led_h.op.op = "pop" /\ ~led_h.op.kept) => led_h.op.got = led_h.op.exp

C29_Witness ==
    /\ led_h.drops >= 1
    /\ led_h.op.op = "pop"
    /\ ~led_h.op.kept
    /\ led_h.op.got.n = EDGEQ_N - 1
    /\ led_h.live = <<>>

(* The pattern whose windows hold a square wave of half period h *)
WaveBand(h) == classify_period(2 * h, h, h)

(* C25 (as stated): on a square wave of 50% duty whose period lies in a    *)
(* window of classify_period, whatever the classifier held when the wave   *)
(* began, every poll that returns after three cycles of the wave have been *)
(* delivered leaves the pattern of that window published                   *)
C25_SquareWaveConverges ==
    (~sig.free /\ sig.loop /\ led_pc = "idle" /\ led_h.live = <<>>
       /\ led_h.nedge >= 6 /\ led_h.drops = 0)
    => s_pat = WaveBand(sig.script[1])

(* C28 (as stated): on the abnormal-boot signature neither SlowBlink nor   *)
(* FastBlink is ever published                                             *)
C28_AbnormalBootNotBlink ==
    (~sig.free /\ ~sig.loop) => s_pat \notin BlinkPatterns

---------------------------------------------------------------------------
(* Light engine properties *)

(* C31 (as stated): while the light engine runs the lockout pattern or the *)
(* error pattern, the schedule it generates from here on differs from the  *)
(* one it would generate for the other of the two                          *)
C31_LockoutAndErrorDiffer ==
    s_led_pat \in {"LED_LOCKOUT_PATTERN", "LED_ERROR_PATTERN"}
    => LedSchedule("LED_LOCKOUT_PATTERN") # LedSchedule("LED_ERROR_PATTERN")

---------------------------------------------------------------------------
(* Start-up properties *)

(* After controller_fsm_init and drv_dvr_status_init, no step of           *)
(* controller_fsm_poll or of drv_dvr_status_poll taken yet                 *)
AfterInit == last_step = Ev("INIT", "0") /\ st_step = Step("init", "-", "-")

(* C32 (as stated): after initialization and before any event is           *)
(* processed the controller state is Off and the interpreter's pattern is  *)
(* Unknown                                                                 *)
C32_InitialOffUnknown ==
    AfterInit => s_state = "STATE_OFF" /\ s_last_pat = "DVR_LED_UNKNOWN"

(* C32 (amended): after initialization and before any event is processed   *)
(* the controller state is Booting, with the boot deadline armed and one   *)
(* long device press requested, the interpreter's pattern is Unknown and   *)
(* its recording latch is clear                                            *)
C32_InitialBootingUnknown ==
    AfterInit => /\ s_state = "STATE_BOOTING"
                 /\ s_boot_deadline_ms = T_BOOT_TIMEOUT_MS
                 /\ Count(act_out, "ACT_DVR_PRESS_LONG") = 1
                 /\ s_last_pat = "DVR_LED_UNKNOWN"
                 /\ ~s_recording
                 /\ ~s_fast_persist_armed

C32_Witness ==
    /\ AfterInit
    /\ now > 0
    /\ evq.items # <<>>

---------------------------------------------------------------------------
(* dvr_ctrl properties *)

NextCtrl ==
    \/ CtrlClock
    \/ CtrlLongWait
    \/ DvrCtrlTick
    \/ DvrRequest
    \/ DvrCtrlAbort
    \/ DvrCtrlSetAssumedState

SpecCtrl == InitFsm /\ [][NextCtrl]_vars

(* The latest call is a request that needs a real press, made t ms after   *)
(* a release with no gesture started in between                            *)
RequestAfterRelease ==
    ctrl_h.op \in CtrlRequests /\ ctrl_h.real /\ ctrl_h.rel >= 0

(* C33 (as stated): a request that needs a real press, made after a        *)
(* gesture's release, returns BUSY and starts no gesture while less than   *)
(* guard_ms have passed since that release, and is ACCEPTED once guard_ms  *)
(* have passed                                                             *)
C33_GuardAfterRelease ==
    RequestAfterRelease
    => IF ctrl_h.rel < g_ctrl.cfg.guard_ms
       THEN ctrl_h.status = "DVR_CTRL_REQ_BUSY" /\ ~ctrl_h.started /\ ~g_ctrl.busy
       ELSE ctrl_h.status = "DVR_CTRL_REQ_ACCEPTED" /\ ctrl_h.started

(* C40 (as stated): after dvr_ctrl_abort called during a gesture the       *)
(* button output is released, the object is not busy and the assumed state *)
(* is the one before the call; and no request starts a gesture while less  *)
(* than guard_ms have passed since that call                               *)
C40_AbortSafe ==
    /\ (ctrl_h.op = "abort" /\ ctrl_h.busy0)
       => /\ ~g_last_asserted
          /\ ~g_ctrl.btn_asserted
          /\ ~g_ctrl.busy
          /\ g_ctrl.assumed = ctrl_h.assumed0
    /\ (ctrl_h.op \in CtrlRequests /\ ctrl_h.abt >= 0 /\ ctrl_h.abt < g_ctrl.cfg.guard_ms)
       => ~ctrl_h.started

---------------------------------------------------------------------------
(* Lockout and shutdown latches of the controller FSM *)

(* C34 (as stated): from the handling of EV_BAT_LOCKOUT_ENTER until the    *)
(* handling of EV_BAT_LOCKOUT_EXIT, that is while s_lockout is set, the    *)
(* controller state is STATE_LOCKOUT after every step of                   *)
(* controller_fsm_poll                                                     *)
C34_LockoutFlagImpliesLockout ==
    s_lockout => s_state = "STATE_LOCKOUT"

(* C35 (as stated): whenever the controller state is STATE_OFF the         *)
(* pending-shutdown latch is clear                                         *)
C35_OffImpliesNoShutdownPending ==
    s_state = "STATE_OFF" => ~s_shutdown_pending

---------------------------------------------------------------------------
(* Boot confirmation against the boot deadline *)

(* EV_DVR_POWERED_ON_IDLE is the event eventq_pop returns next *)
PoweredOnIdleQueued ==
    ~eventq_empty(evq) /\ eventq_front(evq).id = "EV_DVR_POWERED_ON_IDLE"

(* C36 (as stated): when controller_fsm_poll is called in Booting, not     *)
(* locked out, with EV_DVR_POWERED_ON_IDLE waiting at the front of the     *)
(* event queue, its step before the loop does not enter Error, whatever    *)
(* the clock shows, and the first iteration of its loop enters Idle        *)
C36_QueuedIdleBeatsDeadline ==
    [][/\ (fsm_pc = "idle" /\ fsm_pc' = "drain"
             /\ s_state = "STATE_BOOTING" /\ ~s_lockout /\ PoweredOnIdleQueued)
          => s_state' # "STATE_ERROR"
       /\ (fsm_pc = "drain" /\ last_step.id = "BOOT_TIMEOUT_CHECK" /\ evq' # evq
             /\ pre.s_state = "STATE_BOOTING" /\ ~pre.s_lockout /\ PoweredOnIdleQueued)
          => s_state' = "STATE_IDLE"]_vars

---------------------------------------------------------------------------
(* Recording latch of the interpreter *)

(* C37 (as stated): every transition into SLOW_BLINK directly from SOLID   *)
(* or OFF hands exactly one EV_DVR_RECORD_STARTED to eventq_push, and      *)
(* s_recording is never set while the observed pattern is SOLID or OFF     *)
C37_RecordStartedOnEveryEntry ==
    /\ (/\ st_step.kind = "led"
        /\ st_step.pat = "DVR_LED_SLOW_BLINK"
        /\ st_step.prev \in {"DVR_LED_SOLID", "DVR_LED_OFF"})
       => Count(ev_out, "EV_DVR_RECORD_STARTED") = 1
    /\ s_last_pat \in {"DVR_LED_SOLID", "DVR_LED_OFF"} => ~s_recording

---------------------------------------------------------------------------
(* Controller, action queue and executor together: every action the        *)
(* controller emits goes through actionq_push, which rejects it when the   *)
(* queue is full, and executor_poll drains the queue.                      *)

RECURSIVE actionq_push_all(_, _)
actionq_push_all(q, out) ==
    IF out = <<>> THEN q
    ELSE actionq_push_all(actionq_push(q, ExAct(Head(out).id, Head(out).arg0, 0)), Tail(out))

ui_frame == <<now, st_vars, st_hist, next_tag, tagging, prod_vars, ring_vars, ring_hist,
              ex_hist, pw_vars, led_vars, ctrl_vars,
              s_led_pat, s_led_level, s_led_next_ms, s_beep_active, s_beep_pat,
              s_beep_remaining, s_beep_phase, s_beep_next_ms, s_dvr_active, s_dvr_pressed,
              s_dvr_next_ms, s_dvr_press_ms, PIN_STATUS_LED, PIN_BUZZER_OUT, PIN_DVR_BTN_CMD>>

(* controller_fsm_poll up to its loop, its actions pushed *)
UiFsmPollBegin ==
    /\ MainIdle
    /\ \E c \in {boot_timeout_check(Ctx, now)} :
          /\ StoreCtx(c)
          /\ actq' = actionq_push_all(actq, c.out)
    /\ fsm_pc' = "drain"
    /\ last_step' = Ev("BOOT_TIMEOUT_CHECK", "0")
    /\ pre' = Snapshot
    /\ UNCHANGED <<evq, fsm_max_tag, ui_frame>>

(* One iteration of the loop of controller_fsm_poll, its actions pushed *)
UiFsmPollStep ==
    /\ fsm_pc = "drain"
    /\ ~eventq_empty(evq)
    /\ \E c \in {fsm_dispatch(Ctx, eventq_front(evq))} :
          /\ StoreCtx(c)
          /\ actq' = actionq_push_all(actq, c.out)
    /\ evq' = eventq_pop(evq)
    /\ last_step' = eventq_front(evq)
    /\ fsm_max_tag' = IF eventq_front(evq).tag > fsm_max_tag
                      THEN eventq_front(evq).tag ELSE fsm_max_tag
    /\ pre' = Snapshot
    /\ UNCHANGED <<fsm_pc, ui_frame>>

(* controller_fsm_init called after actionq_init: its actions are queued.  *)
(* The clocks stand still in SpecUi: what is examined is which actions     *)
(* reach the executor, and a press the executor has begun stays in         *)
(* progress.                                                               *)
InitUi ==
    /\ InitCoreQ(actionq_push_all(<<>>, controller_fsm_init.out))
    /\ dvr_led_init(HIGH)
    /\ sig = FreeSignal({}, 0, 0)
    /\ tagging = TRUE

NextUi ==
    \/ \E id \in ButtonIds : ButtonEmit(id)
    \/ \E b \in BatteryInputs : BatteryEmit(b[1], b[2])
    \/ \E x \in SemanticInputs : SemanticEmit(x[1], x[2])
    \/ UiFsmPollBegin
    \/ UiFsmPollStep
    \/ FsmPollEnd
    \/ ExecutorPoll

SpecUi == InitUi /\ [][NextUi]_vars

(* ui_policy_on_state_enter: the pattern passed to led() for each state *)
PolicyLed(s) ==
    CASE s = "STATE_OFF"       -> "LED_OFF"
      [] s = "STATE_BOOTING"   -> "LED_FAST_BLINK"
      [] s = "STATE_IDLE"      -> "LED_SOLID"
      [] s = "STATE_RECORDING" -> "LED_SLOW_BLINK"
      [] s = "STATE_LOW_BAT"   -> "LED_SLOW_BLINK"
      [] s = "STATE_ERROR"     -> "LED_ERROR_PATTERN"
      [] s = "STATE_LOCKOUT"   -> "LED_LOCKOUT_PATTERN"

(* C38 (as stated): whenever the action queue is empty, the executor       *)
(* having dispatched every action pushed, the pattern of the light engine  *)
(* is the one ui_policy_on_state_enter gives the current controller state  *)
C38_LedFollowsState ==
    actq = <<>> => s_led_pat = PolicyLed(s_state)

---------------------------------------------------------------------------
(* Termination of the executor's requeueing *)

(* C39 (as stated): the controller pushing finitely many actions, the      *)
(* action queue is eventually empty and stays empty: no action is popped   *)
(* and pushed back by executor_poll for ever                               *)
C39_ActionQueueDrains == <>[](actq = <<>>)

=============================================================================
